---- MODULE Spec2Model ----
(***************************************************************************)
(* Entity Store of the detective game (store/storySlice.ts) together with  *)
(* the cartridge transformer that populates it                             *)
(* (services/cartridgeLoader.ts).  Every reducer is an operator from a     *)
(* store record to a store record, translated branch by branch; the        *)
(* actions dispatch these reducers on the current store.                   *)
(***************************************************************************)
EXTENDS Integers, Sequences, FiniteSets, TLC

VARIABLES
    timeSpent,      \* StoryState.timeSpent
    objects,        \* StoryState.objects   : id -> StoryObject
    events,         \* StoryState.events    : id -> StoryEvent
    sublocations,   \* StoryState.sublocations : id -> Sublocation
    locations,      \* StoryState.locations : ids in insertion order
    characters,     \* StoryState.characters : Character records in order
    evidence,       \* StoryState.evidence  : Evidence[]
    testimonies,    \* StoryState.testimonies : Testimony[]
    last,           \* the last dispatched operation, its arguments and code path
    credited,       \* per object: how often addToTimeline charged its timeToAdd
    cycle,          \* per object: 0 none, 1 addToTimeline called, 2 then removeFromTimeline
    tapped,         \* per object: how often the card flow dispatched its unlock entries
    caseFile,       \* CaseFileState of store/caseFileSlice.ts
    cfLast,         \* the last operation dispatched on the case file and its code path
    images,         \* StoryState: imageUrls, imageLoading, imageErrors,
                    \* imageGenerationQueue, isProcessingQueue
    loops,          \* per invocation of processImageGenerationQueue: where it stands
    requests,       \* the image requests in flight, in the order they were started
    cache,          \* the cardIds the blob cache (IndexedDB) holds an image for
    hydration,      \* hydrateImageCache: whether a run waits for the cache, and
                    \* the cached images it will get
    qLast,          \* the last step of the image queue and its code path
    drain           \* the batches issued since the queue processor was started
                    \* on a preset queue

imageVars == <<images, loops, requests, cache, hydration, qLast, drain>>

storyVars == <<timeSpent, objects, events, sublocations, locations, characters,
               evidence, testimonies, last, credited, cycle, tapped>>

vars == <<timeSpent, objects, events, sublocations, locations, characters,
          evidence, testimonies, last, credited, cycle, tapped, caseFile, cfLast,
          images, loops, requests, cache, hydration, qLast, drain>>

-----------------------------------------------------------------------------
(* Bounds of the model *)

\* timeSpent is an unbounded number in the code; actions that would push it
\* past MaxTime are not taken.
MaxTime == 3

(* Program constants *)

INITIAL_PLAYER_TIME_SPENT == 0
CREATE_TESTIMONY_TIME_ADDITION == 1

-----------------------------------------------------------------------------
(* Identifiers the inputs are drawn from *)

ObjIds == {"o1", "o2"}
ChunkIds == {"k1"}
SuspectIds == {"s1"}
UnlockTypes == {"location", "sublocation", "evidence", "character", "event"}
\* the (type, ref) pairs unlockEntity is dispatched with: for each type a ref
\* that can resolve and one that cannot
UnlockTargets ==
    { <<"location", "l1">>, <<"location", "missing">>,
      <<"sublocation", "sl1">>, <<"sublocation", "missing">>,
      <<"evidence", "o1">>, <<"evidence", "o2">>, <<"evidence", "missing">>,
      <<"character", "c1">>, <<"character", "missing">>,
      <<"event", "e1">>, <<"event", "missing">> }
UnlockTimes == {0, 1}

\* `obj-testimony-${chunk.id}`
TestimonyObjectId(chunkId) == "obj-testimony-" \o chunkId

AllObjIds == ObjIds \cup {TestimonyObjectId(k) : k \in ChunkIds}
AddIds == AllObjIds \cup {"missing"}
AssignIds == {"o1", "missing"}

\* a field of a raw (untrusted) cartridge record, or the default when absent
\* or falsy: the `o.field || default` idiom of the transformer
OrDefault(raw, field, default) ==
    IF field \in DOMAIN raw THEN raw[field] ELSE default

-----------------------------------------------------------------------------
(* Cartridge Transformer *)

\* c.role.toLowerCase()
toLowerCase(role) ==
    CASE role = "Victim" -> "victim"
      [] role = "Suspect" -> "suspect"
      [] OTHER -> role

transformObject(o) ==
    [ id |-> o.id,
      isEvidence |-> OrDefault(o, "isEvidence", FALSE),
      assignedToSuspectIds |-> OrDefault(o, "assignedToSuspectIds", <<>>),
      locationFoundId |-> o.locationFoundId,
      timeToAdd |-> OrDefault(o, "timeToAdd", 0),
      hasBeenUnlocked |-> OrDefault(o, "hasBeenUnlocked", FALSE),
      unlocks |-> OrDefault(o, "unlocks", << >>) ]

transformObjectData(rawObjects) ==
    [i \in 1..Len(rawObjects) |-> transformObject(rawObjects[i])]

\* a statement test that takes the presence of the field for a statement
hasStatementField(c) == "statement" \in DOMAIN c

\* if (c.statement): the field is present and not the empty string
hasStatement(c) == "statement" \in DOMAIN c /\ c.statement # ""

testimonyId(c) == "testimony-" \o c.id

\* the Testimony pushed for a character that has a statement
testimonyOf(c) ==
    [ id |-> testimonyId(c), content |-> c.statement,
      sourceCharacterId |-> c.id ]

\* c.components || [], as the set of the component types
componentsOf(c) == OrDefault(c, "components", {})

\* components.find(comp => comp.type === 'physicalCharacteristics')?.props
\* is found, and the raw role is 'suspect'
pushesMugshot(c) ==
    "physicalCharacteristics" \in componentsOf(c) /\ c.role = "suspect"

\* the raw object pushed onto allRawObjects for a suspect
mugshotOf(c) ==
    [ id |-> "obj_mugshot_" \o c.id, ownerCharacterId |-> c.id,
      category |-> "police_file", locationFoundId |-> "loc_police_station",
      timeToAdd |-> 0 ]

standardComponentTypes ==
    {"socialMedia", "phoneLog", "cctv", "records", "file", "purchaseInfo",
     "interaction", "dialogue"}

\* allRawObjects.some(...) of the component check
hasComponentData(c, allRawObjects, type) ==
    \/ \E i \in 1..Len(allRawObjects) :
          /\ OrDefault(allRawObjects[i], "ownerCharacterId", "") = c.id
          /\ OrDefault(allRawObjects[i], "category", "") = type
    \/ \E i \in 1..Len(allRawObjects) :
          /\ OrDefault(allRawObjects[i], "authorCharacterId", "") = c.id
          /\ type = "socialMedia"

transformCharacter(c, allRawObjects) ==
    [ id |-> c.id,
      role |-> toLowerCase(c.role),
      testimonyIds |-> IF hasStatement(c) THEN << testimonyId(c) >> ELSE << >>,
      components |->
          componentsOf(c) \cup
          {type \in standardComponentTypes :
              hasComponentData(c, allRawObjects, type)} ]

\* the raw object list as the map over the first n characters has left it:
\* the mugshots are pushed onto the array the cartridge holds
RECURSIVE pushedObjects(_, _, _)
pushedObjects(rawCharacters, rawObjects, n) ==
    IF n = 0 THEN rawObjects
    ELSE LET before == pushedObjects(rawCharacters, rawObjects, n - 1)
         IN  IF pushesMugshot(rawCharacters[n])
             THEN Append(before, mugshotOf(rawCharacters[n]))
             ELSE before

\* the testimonies array as the map over the first n characters has left it
RECURSIVE pushedTestimonies(_, _)
pushedTestimonies(rawCharacters, n) ==
    IF n = 0 THEN << >>
    ELSE IF hasStatement(rawCharacters[n])
         THEN Append(pushedTestimonies(rawCharacters, n - 1),
                     testimonyOf(rawCharacters[n]))
         ELSE pushedTestimonies(rawCharacters, n - 1)

transformCharacterData(rawCharacters, allRawObjects) ==
    [i \in 1..Len(rawCharacters) |->
        transformCharacter(rawCharacters[i],
                           pushedObjects(rawCharacters, allRawObjects, i))]

transformEvent(e) ==
    [ id |-> e.id,
      timeToAdd |-> OrDefault(e, "timeToAdd", 0),
      hasBeenUnlocked |-> OrDefault(e, "hasBeenUnlocked", FALSE) ]

transformEventData(rawEvents) ==
    [i \in 1..Len(rawEvents) |-> transformEvent(rawEvents[i])]

transformSublocation(s) ==
    [ id |-> s.id,
      isVisible |-> OrDefault(s, "isVisible", FALSE),
      timeToAdd |-> OrDefault(s, "timeToAdd", 0),
      hasBeenUnlocked |-> OrDefault(s, "hasBeenUnlocked", FALSE) ]

transformSublocationData(rawSublocations) ==
    [i \in 1..Len(rawSublocations) |-> transformSublocation(rawSublocations[i])]

\* services/cartridgeLoader.ts loadStoryCartridge: the StoryData of a cartridge
\* objects is computed from cartridge.objects before transformCharacterData
\* pushes onto that array
loadCartridgeFromService(cartridge) ==
    LET objectsOut == transformObjectData(cartridge.objects)
        charactersOut ==
            transformCharacterData(cartridge.characters, cartridge.objects)
        testimoniesPushed ==
            pushedTestimonies(cartridge.characters, Len(cartridge.characters))
    IN  [ storyInfo |-> [crimeSceneId |-> cartridge.crimeSceneId],
          characters |-> charactersOut,
          objects |-> objectsOut,
          events |-> transformEventData(cartridge.events),
          locations |-> cartridge.locations,
          sublocations |-> transformSublocationData(cartridge.sublocations),
          testimonies |-> testimoniesPushed ]

-----------------------------------------------------------------------------
(* Cartridges offered to Load.  Optional raw fields are present in some     *)
(* records and absent in others.                                            *)

\* two locations, crime scene set, a victim, two locked objects (the second
\* found at a location the cartridge does not define), no event or sublocation;
\* the first object declares an unlock of the second, the second an unlock of
\* a location
CartridgeFull ==
    [ crimeSceneId |-> "l2",
      locations |-> <<"l1", "l2">>,
      characters |-> << [id |-> "c1", role |-> "Victim", statement |-> ""],
                        [id |-> "c2", role |-> "suspect",
                         statement |-> "I was home",
                         components |-> {"physicalCharacteristics"}] >>,
      objects |-> << [id |-> "o1", locationFoundId |-> "l1", timeToAdd |-> 2,
                      ownerCharacterId |-> "c2", category |-> "records",
                      unlocks |-> << [type |-> "evidence", ref |-> "o2",
                                      time |-> 1] >>],
                     [id |-> "o2", locationFoundId |-> "lx", timeToAdd |-> 1,
                      hasBeenUnlocked |-> FALSE, isEvidence |-> FALSE,
                      unlocks |-> << [type |-> "location", ref |-> "l2",
                                      time |-> 1] >>] >>,
      events |-> <<>>,
      sublocations |-> <<>> ]

\* no location at all; a locked event and a locked sublocation
CartridgeNoLocations ==
    [ crimeSceneId |-> "",
      locations |-> <<>>,
      characters |-> << [id |-> "c1", role |-> "victim",
                         statement |-> "He fell"] >>,
      objects |-> << [id |-> "o1", locationFoundId |-> "l1", timeToAdd |-> 2] >>,
      events |-> << [id |-> "e1", timeToAdd |-> 1] >>,
      sublocations |-> << [id |-> "sl1"] >> ]

\* crime scene unset, no victim, an object (flagged as evidence) and an event
\* unlocked beforehand
CartridgePreUnlocked ==
    [ crimeSceneId |-> "",
      locations |-> <<"l1">>,
      characters |-> << [id |-> "c2", role |-> "Suspect",
                         components |-> {"physicalCharacteristics"}] >>,
      objects |-> << [id |-> "o1", locationFoundId |-> "l1", timeToAdd |-> 2,
                      hasBeenUnlocked |-> TRUE, isEvidence |-> TRUE],
                     [id |-> "o2", locationFoundId |-> "l1"] >>,
      events |-> << [id |-> "e1", hasBeenUnlocked |-> TRUE] >>,
      sublocations |-> << [id |-> "sl1", isVisible |-> TRUE,
                           hasBeenUnlocked |-> TRUE] >> ]

\* one location, a crime scene id that names no location, a victim, and two
\* sublocations whose two flags the cartridge sets differently: one visible
\* but locked, one unlocked but hidden
CartridgeVisibleSublocation ==
    [ crimeSceneId |-> "lx",
      locations |-> <<"l1">>,
      characters |-> << [id |-> "c1", role |-> "victim"] >>,
      objects |-> << >>,
      events |-> << >>,
      sublocations |-> << [id |-> "sl1", isVisible |-> TRUE],
                          [id |-> "sl2", hasBeenUnlocked |-> TRUE] >> ]

Cartridges ==
    {CartridgeFull, CartridgeNoLocations, CartridgePreUnlocked,
     CartridgeVisibleSublocation}

-----------------------------------------------------------------------------
(* Entity adapters *)

\* adapter.setAll(adapter.getInitialState(), list): id -> entity
setAll(list) ==
    [id \in {list[i].id : i \in 1..Len(list)} |->
        list[CHOOSE i \in 1..Len(list) :
                /\ list[i].id = id
                /\ \A j \in 1..Len(list) : list[j].id = id => j <= i]]

\* adapter.updateOne(state, {id, changes}): shallow merge into an existing entity
updateOne(entities, id, changes) ==
    IF id \in DOMAIN entities
    THEN [entities EXCEPT ![id] = changes @@ @]
    ELSE entities

\* adapter.addOne(state, entity): ignored when the id is already present
addOne(entities, entity) ==
    IF entity.id \in DOMAIN entities
    THEN entities
    ELSE (entity.id :> entity) @@ entities

-----------------------------------------------------------------------------
(* The store as one record, so that reducers compose *)

Store ==
    [ timeSpent |-> timeSpent, objects |-> objects, events |-> events,
      sublocations |-> sublocations, locations |-> locations,
      characters |-> characters, evidence |-> evidence,
      testimonies |-> testimonies, branch |-> "none" ]

createEmptyInitialState ==
    [ timeSpent |-> INITIAL_PLAYER_TIME_SPENT, objects |-> << >>,
      events |-> << >>, sublocations |-> << >>, locations |-> << >>,
      characters |-> << >>, evidence |-> << >>, testimonies |-> << >>,
      branch |-> "none" ]

\* the existence check comparing the entry's own id instead of its cardId
EvidenceSomeById(ev, id) == \E i \in 1..Len(ev) : ev[i].id = id

\* state.evidence.some(e => e.cardId === id)
EvidenceSome(ev, id) == \E i \in 1..Len(ev) : ev[i].cardId = id

\* item.timeToAdd ?? 0
TimeToAddOf(item) == IF "timeToAdd" \in DOMAIN item THEN item.timeToAdd ELSE 0

NoLocation == "undefined"

\* state.locations.entities[locationFoundId] || Object.values(entities)[0]
LocationOf(st, locationFoundId) ==
    IF \E i \in 1..Len(st.locations) : st.locations[i] = locationFoundId
    THEN locationFoundId
    ELSE IF Len(st.locations) > 0 THEN st.locations[1] ELSE NoLocation

-----------------------------------------------------------------------------
(* Reducers of storySlice.  Each returns the next store; `branch` names the *)
(* code path taken.                                                         *)

\* the Evidence entry pushed for an object
ObjectEvidence(item, locationId) ==
    [ id |-> "ev-" \o item.id, cardId |-> item.id, cardType |-> "object",
      locationId |-> locationId ]

\* the push at the end of addToTimeline, guarded by the existence check and
\* by a location being found
pushEvidence(st, item) ==
    LET location == LocationOf(st, item.locationFoundId)
    IN  IF ~EvidenceSome(st.evidence, item.id) /\ location # NoLocation
        THEN [st EXCEPT !.evidence = Append(@, ObjectEvidence(item, location))]
        ELSE st

\* Case 1 without the hasBeenUnlocked flag being set
firstUnlockNoFlag(st, id) ==
    [st EXCEPT !.timeSpent = @ + TimeToAddOf(st.objects[id]),
               !.objects = updateOne(@, id, [isEvidence |-> TRUE]),
               !.branch = "firstUnlock"]

\* Case 1 of addToTimeline: the item has never been unlocked
firstUnlock(st, id) ==
    [st EXCEPT !.timeSpent = @ + TimeToAddOf(st.objects[id]),
               !.objects = updateOne(@, id, [isEvidence |-> TRUE,
                                             hasBeenUnlocked |-> TRUE]),
               !.branch = "firstUnlock"]

\* Case 2 of addToTimeline: unlocked before, re-adding is free
reAdd(st, id) ==
    [st EXCEPT !.objects = updateOne(@, id, [isEvidence |-> TRUE]),
               !.branch = "reAdd"]

addToTimeline(st, id) ==
    IF id \notin DOMAIN st.objects
    THEN [st EXCEPT !.branch = "noItem"]
    ELSE IF EvidenceSome(st.evidence, id)
    THEN [st EXCEPT !.branch = "alreadyOnTimeline"]
    ELSE LET item == st.objects[id]
         IN  pushEvidence(IF ~item.hasBeenUnlocked
                          THEN firstUnlock(st, id)
                          ELSE reAdd(st, id),
                          item)

\* evidence.filter(e => e.cardId !== id)
FilterOut(ev, id) == SelectSeq(ev, LAMBDA e : e.cardId # id)

\* removal that also forgets the one-time unlock
removeChangesRelock ==
    [isEvidence |-> FALSE, assignedToSuspectIds |-> << >>,
     hasBeenUnlocked |-> FALSE]

\* removal that keeps the suspect assignments
removeChangesKeepAssigned == [isEvidence |-> FALSE]

\* the changes removeFromTimeline applies to the object
removeChanges == [isEvidence |-> FALSE, assignedToSuspectIds |-> << >>]

\* removal that refunds the object's time cost
removeFromTimelineRefund(st, id) ==
    IF id \in DOMAIN st.objects /\ st.objects[id].isEvidence
    THEN [st EXCEPT !.timeSpent = @ - TimeToAddOf(st.objects[id]),
                    !.objects = updateOne(@, id, removeChanges),
                    !.evidence = FilterOut(@, id),
                    !.branch = "removed"]
    ELSE [st EXCEPT !.branch = "skipped"]

removeFromTimeline(st, id) ==
    IF id \in DOMAIN st.objects /\ st.objects[id].isEvidence
    THEN [st EXCEPT !.objects = updateOne(@, id, removeChanges),
                    !.evidence = FilterOut(@, id),
                    !.branch = "removed"]
    ELSE [st EXCEPT !.branch = "skipped"]

Includes(seq, x) == \E i \in 1..Len(seq) : seq[i] = x

assignEvidenceToSuspect(st, objectId, suspectId) ==
    IF objectId \in DOMAIN st.objects
    THEN LET object == st.objects[objectId]
             assignedIds ==
                 IF Includes(object.assignedToSuspectIds, suspectId)
                 THEN SelectSeq(object.assignedToSuspectIds,
                                LAMBDA x : x # suspectId)
                 ELSE Append(object.assignedToSuspectIds, suspectId)
         IN  [st EXCEPT !.objects = updateOne(@, objectId,
                                [assignedToSuspectIds |-> assignedIds]),
                        !.branch = "toggled"]
    ELSE [st EXCEPT !.branch = "noItem"]

addDynamicObject(st, object) ==
    [st EXCEPT !.objects = addOne(@, object)]

addTimeSpent(st, amount) ==
    [st EXCEPT !.timeSpent = @ + amount]

\* the time charge at the top of unlockEntity
chargeUnlock(st, timeToAdd) ==
    [st EXCEPT !.timeSpent = @ + timeToAdd]

\* an unlock of a sublocation that leaves it hidden
unlockSublocationHidden == [hasBeenUnlocked |-> TRUE]

\* the changes unlockEntity applies to a locked sublocation
unlockSublocationChanges == [isVisible |-> TRUE, hasBeenUnlocked |-> TRUE]

\* the switch of unlockEntity
unlockSwitch(st, type, ref) ==
    CASE type = "sublocation" ->
            IF ref \in DOMAIN st.sublocations
               /\ ~st.sublocations[ref].hasBeenUnlocked
            THEN [st EXCEPT !.sublocations = updateOne(@, ref,
                                unlockSublocationChanges),
                            !.branch = "unlocked"]
            ELSE [st EXCEPT !.branch = IF ref \in DOMAIN st.sublocations
                                       THEN "alreadyUnlocked" ELSE "noTarget"]
      [] type = "evidence" ->
            IF ref \in DOMAIN st.objects /\ ~st.objects[ref].hasBeenUnlocked
            THEN [st EXCEPT !.objects = updateOne(@, ref,
                                [hasBeenUnlocked |-> TRUE]),
                            !.branch = "unlocked"]
            ELSE [st EXCEPT !.branch = IF ref \in DOMAIN st.objects
                                       THEN "alreadyUnlocked" ELSE "noTarget"]
      [] type = "event" ->
            IF ref \in DOMAIN st.events /\ ~st.events[ref].hasBeenUnlocked
            THEN [st EXCEPT !.events = updateOne(@, ref,
                                [hasBeenUnlocked |-> TRUE]),
                            !.branch = "unlocked"]
            ELSE [st EXCEPT !.branch = IF ref \in DOMAIN st.events
                                       THEN "alreadyUnlocked" ELSE "noTarget"]
      [] OTHER -> [st EXCEPT !.branch = "alwaysVisible"]

\* unlockEntity charging only when the call newly unlocks its target
unlockEntityChargeOnUnlock(st, type, ref, timeToAdd) ==
    LET after == unlockSwitch(st, type, ref)
    IN  IF after.branch = "unlocked" THEN chargeUnlock(after, timeToAdd)
        ELSE after

\* unlockEntity ignoring a ref that resolves to nothing
unlockEntityIgnoreMissing(st, type, ref, timeToAdd) ==
    LET after == unlockSwitch(st, type, ref)
    IN  IF after.branch = "noTarget" THEN after
        ELSE chargeUnlock(after, timeToAdd)

unlockEntity(st, type, ref, timeToAdd) ==
    unlockSwitch(chargeUnlock(st, timeToAdd), type, ref)

\* the StoryObject built by createEvidenceFromTestimony
TestimonyObject(chunkId) ==
    [ id |-> TestimonyObjectId(chunkId),
      isEvidence |-> TRUE,
      assignedToSuspectIds |-> << >>,
      locationFoundId |-> "loc_interrogation_room",
      hasBeenUnlocked |-> TRUE ]

\* the three dispatches of the createEvidenceFromTestimony thunk, in order
createEvidenceFromTestimony(st, chunkId) ==
    addToTimeline(
        addDynamicObject(
            addTimeSpent(st, CREATE_TESTIMONY_TIME_ADDITION),
            TestimonyObject(chunkId)),
        TestimonyObjectId(chunkId))

\* characters.find(c => c.role === 'victim'), as the set of its possible results
FindVictim(chars) ==
    {i \in 1..Len(chars) :
        /\ chars[i].role = "victim"
        /\ \A j \in 1..(i - 1) : chars[j].role # "victim"}

\* an initial entry that is always put at the first location
initialEvidenceAtFirstLocation(storyData) ==
    LET victim == FindVictim(storyData.characters)
    IN  IF victim # {} /\ Len(storyData.locations) > 0
        THEN << [ id |-> "ev-initial-crime",
                  cardId |-> storyData.characters[CHOOSE i \in victim : TRUE].id,
                  cardType |-> "character",
                  locationId |-> storyData.locations[1] ] >>
        ELSE << >>

\* the payload creator of the loadStoryCartridge thunk: initialEvidence
initialEvidence(storyData) ==
    LET victim == FindVictim(storyData.characters)
        sceneId == storyData.storyInfo.crimeSceneId
        crimeScene ==
            IF sceneId # "" /\ Includes(storyData.locations, sceneId)
            THEN sceneId ELSE NoLocation
        evidenceLocation ==
            IF crimeScene # NoLocation THEN crimeScene
            ELSE IF Len(storyData.locations) > 0
                 THEN storyData.locations[1] ELSE NoLocation
    IN  IF victim # {} /\ evidenceLocation # NoLocation
        THEN << [ id |-> "ev-initial-crime",
                  cardId |-> storyData.characters[CHOOSE i \in victim : TRUE].id,
                  cardType |-> "character",
                  locationId |-> evidenceLocation ] >>
        ELSE << >>

-----------------------------------------------------------------------------
(* The card toggle flow: ObjectCard.handleEvidenceToggle and the             *)
(* handleEvidenceTap of useUnlockSystem, as the dispatches they make in      *)
(* order on the store                                                        *)

\* object.unlocks.forEach(unlock => dispatch(unlockEntity({...})))
RECURSIVE dispatchUnlocks(_, _, _)
dispatchUnlocks(st, unlocks, i) ==
    IF i > Len(unlocks)
    THEN st
    ELSE dispatchUnlocks(
            unlockEntity(st, unlocks[i].type, unlocks[i].ref, unlocks[i].time),
            unlocks, i + 1)

\* allObjects is the object list of the render the handler was created in
handleEvidenceTap(st, allObjects, objectId) ==
    IF objectId \notin DOMAIN allObjects
       \/ "unlocks" \notin DOMAIN allObjects[objectId]
    THEN [st EXCEPT !.branch = "noUnlocks"]
    ELSE [dispatchUnlocks(st, allObjects[objectId].unlocks, 1)
             EXCEPT !.branch = "tapped"]

\* const isFirstUnlock = !object.hasBeenUnlocked
isFirstUnlock(object) == ~object.hasBeenUnlocked

handleEvidenceToggle(st, id, isAdding) ==
    LET object == st.objects[id]
        currentlyOn == EvidenceSome(st.evidence, id)
    IN  IF isAdding
        THEN IF currentlyOn
             THEN [st EXCEPT !.branch = "alreadyOn"]
             ELSE IF isFirstUnlock(object)
                  THEN handleEvidenceTap(addToTimeline(st, id), st.objects, id)
                  ELSE [addToTimeline(st, id) EXCEPT !.branch = "addedNoTap"]
        ELSE IF ~currentlyOn
             THEN [st EXCEPT !.branch = "nothingToRemove"]
             ELSE [removeFromTimeline(st, id) EXCEPT !.branch = "removedByToggle"]

-----------------------------------------------------------------------------
\* extraReducers: loadStoryCartridge.fulfilled
loadFulfilled(st, storyData) ==
    [st EXCEPT !.characters = storyData.characters,
               !.objects = setAll(storyData.objects),
               !.events = setAll(storyData.events),
               !.locations = storyData.locations,
               !.sublocations = setAll(storyData.sublocations),
               !.evidence = initialEvidence(storyData),
               !.testimonies = storyData.testimonies,
               !.branch = "loaded"]

-----------------------------------------------------------------------------
(* Case File Engine: store/caseFileSlice.ts *)

\* the score is an unbounded number in the code; placements that would push
\* it past MaxScore are not taken
MaxScore == 5

Null == "null"
Undefined == "undefined"

\* !!value of a string, null or undefined
Truthy(value) == value \notin {Null, Undefined, ""}

\* record.field, undefined when the record has no such field
Get(record, field) ==
    IF field \in DOMAIN record THEN record[field] ELSE Undefined

\* the caseFile sub-document of the cartridge: three clues, an anchor with a
\* primary and a supporting slot and an anchor with a primary slot only
CaseFileDocument ==
    [ clues |->
        << [id |-> "p1", eventKey |-> "ek1", type |-> "PRIMARY",
            points |-> 2, category |-> "motive"],
           [id |-> "p2", eventKey |-> "ek2", type |-> "PRIMARY",
            points |-> 1, category |-> "means"],
           [id |-> "s1", eventKey |-> "", type |-> "SUPPORTING",
            points |-> 1, bonusPoints |-> 1, category |-> "motive"] >>,
      anchors |->
        << [id |-> "motive",
            primarySlot |-> [slotId |-> "m0", correctEventKey |-> "ek1",
                             placedClueId |-> Null],
            supportingSlots |-> << [slotId |-> "m1", placedClueId |-> Null] >>],
           [id |-> "means",
            primarySlot |-> [slotId |-> "n0", correctEventKey |-> "ek2",
                             placedClueId |-> Null],
            supportingSlots |-> << >>] >> ]

\* a sub-document without the clues of the other one: one clue of a type the
\* placement logic does not know, one anchor
CaseFileDocumentOther ==
    [ clues |->
        << [id |-> "x1", eventKey |-> "ek1", type |-> "RED_HERRING",
            points |-> 1, category |-> "motive"] >>,
      anchors |->
        << [id |-> "motive",
            primarySlot |-> [slotId |-> "m0", correctEventKey |-> "ek1",
                             placedClueId |-> Null],
            supportingSlots |-> << >>] >> ]

CaseFileDocuments == {CaseFileDocument, CaseFileDocumentOther}

\* a sub-document whose first anchor has two supporting slots and two
\* supporting clues of its category
CaseFileDocumentSupporting ==
    [ clues |->
        << [id |-> "p1", eventKey |-> "ek1", type |-> "PRIMARY",
            points |-> 1, category |-> "motive"],
           [id |-> "p2", eventKey |-> "ek2", type |-> "PRIMARY",
            points |-> 1, category |-> "means"],
           [id |-> "s1", eventKey |-> "", type |-> "SUPPORTING",
            points |-> 1, category |-> "motive"],
           [id |-> "s2", eventKey |-> "", type |-> "SUPPORTING",
            points |-> 1, bonusPoints |-> 1, category |-> "motive"] >>,
      anchors |->
        << [id |-> "motive",
            primarySlot |-> [slotId |-> "m0", correctEventKey |-> "ek1",
                             placedClueId |-> Null],
            supportingSlots |-> << [slotId |-> "m1", placedClueId |-> Null],
                                   [slotId |-> "m2", placedClueId |-> Null] >>],
           [id |-> "means",
            primarySlot |-> [slotId |-> "n0", correctEventKey |-> "ek2",
                             placedClueId |-> Null],
            supportingSlots |-> << >>] >> ]

SupportingClueIds == {"p1", "p2", "s1", "s2"}
SupportingSlotNames == {"m0", "m1", "m2", "n0"}

ViewModes == {"workspace", "timeline"}
Tabs == {"motive", "means", "opportunity"}
ClueIds == {"p1", "p2", "s1", "x1"}
SelectableIds == ClueIds \cup {Null}
SlotIds == {"m0", "m1", "n0", "missing"}

\* slotsAdapter.setAll(slotsAdapter.getInitialState(), list), keyed by slotId
setAllSlots(list) ==
    [id \in {list[i].slotId : i \in 1..Len(list)} |->
        list[CHOOSE i \in 1..Len(list) :
                /\ list[i].slotId = id
                /\ \A j \in 1..Len(list) : list[j].slotId = id => j <= i]]

\* anchors.flatMap(anchor => [anchor.primarySlot, ...anchor.supportingSlots])
RECURSIVE flatMapSlots(_)
flatMapSlots(anchors) ==
    IF anchors = << >> THEN << >>
    ELSE <<Head(anchors).primarySlot>> \o Head(anchors).supportingSlots
            \o flatMapSlots(Tail(anchors))

createEmptyCaseFileState ==
    [ viewMode |-> "workspace",
      activeTab |-> "motive",
      selectedClueId |-> Null,
      clues |-> << >>,
      slots |-> << >>,
      anchors |-> << >>,
      score |-> 0,
      lastIncorrectSlotId |-> Null ]

setViewMode(state, payload) == [state EXCEPT !.viewMode = payload]

setActiveTab(state, payload) == [state EXCEPT !.activeTab = payload]

setSelectedClueId(state, payload) == [state EXCEPT !.selectedClueId = payload]

\* state.anchors.find(a => a.id === state.activeTab), as the set of its results
FindAnchor(state) ==
    {i \in 1..Len(state.anchors) :
        /\ state.anchors[i].id = state.activeTab
        /\ \A j \in 1..(i - 1) : state.anchors[j].id # state.activeTab}

\* the conditions under which placeClueInSlot goes past its early returns
Resolved(state, slotId) ==
    /\ Truthy(state.selectedClueId)
    /\ state.selectedClueId \in DOMAIN state.clues
    /\ slotId \in DOMAIN state.slots
    /\ FindAnchor(state) # {}

\* !!state.slots.entities[anchor.primarySlot.slotId]?.placedClueId
primarySlotFilled(state, anchor) ==
    /\ anchor.primarySlot.slotId \in DOMAIN state.slots
    /\ Truthy(state.slots[anchor.primarySlot.slotId].placedClueId)

\* a slot test that every slot passes
isSupportingSlotAnywhere(anchor, slotId) == TRUE

\* anchor.supportingSlots.some(s => s.slotId === slotId)
isSupportingSlot(anchor, slotId) ==
    \E i \in 1..Len(anchor.supportingSlots) :
        anchor.supportingSlots[i].slotId = slotId

\* a supporting placement that does not require the primary slot
supportingCorrectWithoutPrimary(state, slotId, clue, anchor) ==
    isSupportingSlot(anchor, slotId) /\ clue.category = anchor.id

\* placement logic for a SUPPORTING clue
supportingCorrect(state, slotId, clue, anchor) ==
    /\ primarySlotFilled(state, anchor)
    /\ isSupportingSlot(anchor, slotId)
    /\ clue.category = anchor.id

\* placement logic for a PRIMARY clue
primaryCorrect(slot, clue) ==
    Get(slot, "correctEventKey") = Get(clue, "eventKey")

\* the value of isCorrect when the clue, the slot and the anchor resolve
isCorrect(state, slotId) ==
    LET clue == state.clues[state.selectedClueId]
        slot == state.slots[slotId]
        anchor == state.anchors[CHOOSE i \in FindAnchor(state) : TRUE]
    IN  CASE clue.type = "PRIMARY" -> primaryCorrect(slot, clue)
          [] clue.type = "SUPPORTING" ->
                supportingCorrect(state, slotId, clue, anchor)
          [] OTHER -> FALSE

\* clue.points + (clue.bonusPoints || 0)
cluePoints(clue) == clue.points + OrDefault(clue, "bonusPoints", 0)

\* a correct placement that also takes the clue off the master list
placeCorrectRemovesClue(state, slotId) ==
    LET clueId == state.selectedClueId
    IN  [state EXCEPT
            !.slots = updateOne(@, slotId, [placedClueId |-> clueId]),
            !.clues = [id \in DOMAIN @ \ {clueId} |-> @[id]],
            !.score = @ + cluePoints(state.clues[clueId]),
            !.selectedClueId = Null,
            !.lastIncorrectSlotId = Null]

\* the isCorrect branch of placeClueInSlot
placeCorrect(state, slotId) ==
    LET clueId == state.selectedClueId
    IN  [state EXCEPT
            !.slots = updateOne(@, slotId, [placedClueId |-> clueId]),
            !.score = @ + cluePoints(state.clues[clueId]),
            !.selectedClueId = Null,
            !.lastIncorrectSlotId = Null]

\* an incorrect placement that costs a point
placeIncorrectPenalty(state, slotId) ==
    [state EXCEPT !.lastIncorrectSlotId = slotId, !.score = @ - 1]

\* an incorrect placement that drops the selection
placeIncorrectDeselects(state, slotId) ==
    [state EXCEPT !.lastIncorrectSlotId = slotId, !.selectedClueId = Null]

\* an incorrect placement that empties the target slot
placeIncorrectEmptiesSlot(state, slotId) ==
    [state EXCEPT !.lastIncorrectSlotId = slotId,
                  !.slots = updateOne(@, slotId, [placedClueId |-> Null])]

\* the else branch of placeClueInSlot
placeIncorrect(state, slotId) ==
    [state EXCEPT !.lastIncorrectSlotId = slotId]

\* an early return that marks the slot as an incorrect placement
placeUnresolvedMarks(state, slotId) ==
    [state EXCEPT !.lastIncorrectSlotId = slotId]

\* the early returns of placeClueInSlot
placeUnresolved(state, slotId) == state

placeClueInSlot(state, slotId) ==
    IF ~Resolved(state, slotId) THEN placeUnresolved(state, slotId)
    ELSE IF isCorrect(state, slotId) THEN placeCorrect(state, slotId)
    ELSE placeIncorrect(state, slotId)

\* the code path placeClueInSlot takes
placeBranch(state, slotId) ==
    IF ~Resolved(state, slotId) THEN "unresolved"
    ELSE IF isCorrect(state, slotId) THEN "correct"
    ELSE "incorrect"

clearLastIncorrectSlot(state) == [state EXCEPT !.lastIncorrectSlotId = Null]

\* `return createInitialState()`: the slice defines createEmptyInitialState
\* and nothing named createInitialState, so the reducer throws a
\* ReferenceError and the store keeps the state it had
resetInvestigation(state) == state

\* extraReducers: loadCaseFileFromCartridge.fulfilled
loadCaseFileFulfilled(state, caseFileData) ==
    [state EXCEPT !.clues = setAll(caseFileData.clues),
                  !.slots = setAllSlots(flatMapSlots(caseFileData.anchors)),
                  !.anchors = caseFileData.anchors]

\* a completion test satisfied by any one filled slot
selectIsInvestigationCompleteAny(state) ==
    \E id \in DOMAIN state.slots : Truthy(state.slots[id].placedClueId)

\* allSlots.every(slot => !!slot.placedClueId)
selectIsInvestigationComplete(state) ==
    \A id \in DOMAIN state.slots : Truthy(state.slots[id].placedClueId)

-----------------------------------------------------------------------------
(* Image Fetch Queue: the image reducers of storySlice and the thunks        *)
(* processImageGenerationQueue and hydrateImageCache                         *)

\* the longest preset queue the orchestrator is started on
MaxRequests == 5

\* API_CONFIG.CONCURRENT_REQUEST_LIMIT
CONCURRENT_REQUEST_LIMIT == 2

\* cards are numbered; the first three are the ones requests are queued for
\* while the orchestrator runs
AllCardIds == 1..MaxRequests
ImageCardIds == 1..3
LoopIds == {1, 2}

\* imageUrls[cardId] of a card without entry
NoUrl == "none"

\* the image fields of createEmptyInitialState; a missing key of
\* imageLoading and imageErrors reads as false
createEmptyImageState ==
    [ imageUrls |-> [c \in AllCardIds |-> NoUrl],
      imageLoading |-> [c \in AllCardIds |-> FALSE],
      imageErrors |-> [c \in AllCardIds |-> FALSE],
      imageGenerationQueue |-> << >>,
      isProcessingQueue |-> FALSE ]

\* state.imageGenerationQueue.some(req => req.cardId === cardId)
isInQueue(state, cardId) ==
    \E i \in 1..Len(state.imageGenerationQueue) :
        state.imageGenerationQueue[i].cardId = cardId

\* !!state.imageUrls[cardId]
isAlreadyLoaded(state, cardId) == state.imageUrls[cardId] # NoUrl

\* an in-flight test that never reports a card as loading
isLoadingNever(state, cardId) == FALSE

\* !!state.imageLoading[cardId]
isLoading(state, cardId) == state.imageLoading[cardId]

\* an admission test that does not look at the queue
admissibleIgnoringQueue(state, cardId) ==
    ~isAlreadyLoaded(state, cardId) /\ ~isLoading(state, cardId)

\* !isInQueue && !isAlreadyLoaded && !isLoading
admissible(state, cardId) ==
    /\ ~isInQueue(state, cardId)
    /\ ~isAlreadyLoaded(state, cardId)
    /\ ~isLoading(state, cardId)

queueImageGeneration(state, request) ==
    IF admissible(state, request.cardId)
    THEN [state EXCEPT !.imageGenerationQueue = Append(@, request)]
    ELSE state

\* state.imageGenerationQueue.splice(0, count)
dequeueImageRequests(state, count) ==
    [state EXCEPT !.imageGenerationQueue =
        SubSeq(@, (IF count < Len(@) THEN count ELSE Len(@)) + 1, Len(@))]

setIsProcessingQueue(state, payload) ==
    [state EXCEPT !.isProcessingQueue = payload]

setImageLoading(state, cardId, loading) ==
    [state EXCEPT !.imageLoading[cardId] = loading]

setImageUrl(state, cardId, imageUrl) ==
    [state EXCEPT !.imageUrls[cardId] = imageUrl]

\* state.imageUrls = { ...state.imageUrls, ...action.payload }
setImageUrls(state, urls) ==
    [state EXCEPT !.imageUrls =
        [c \in AllCardIds |-> IF c \in DOMAIN urls THEN urls[c] ELSE @[c]]]

setImageError(state, cardId, hasError) ==
    [state EXCEPT !.imageErrors[cardId] = hasError]

\* the object URLs URL.createObjectURL returns: one made by the queue
\* processor from a generated image, one made by the hydration from a
\* cached blob
GeneratedUrl == "blob:generated"
HydratedUrl == "blob:hydrated"

\* a re-entrancy guard that looks at the queue only
orchestratorExitsOnEmptyOnly(state) ==
    Len(state.imageGenerationQueue) = 0

\* the guard at the top of processImageGenerationQueue: true when the
\* invocation returns at once
orchestratorExits(state) ==
    state.isProcessingQueue \/ Len(state.imageGenerationQueue) = 0

\* a slice of one request
batchOfOne(state) ==
    SubSeq(state.imageGenerationQueue, 1,
           IF Len(state.imageGenerationQueue) < 1
           THEN Len(state.imageGenerationQueue)
           ELSE 1)

\* currentQueue.slice(0, CONCURRENT_REQUEST_LIMIT)
batchOf(state) ==
    SubSeq(state.imageGenerationQueue, 1,
           IF Len(state.imageGenerationQueue) < CONCURRENT_REQUEST_LIMIT
           THEN Len(state.imageGenerationQueue)
           ELSE CONCURRENT_REQUEST_LIMIT)

\* the part of batch.map that runs before the first await of each request:
\* setImageLoading(true) and the call of the image service
RECURSIVE markLoading(_, _)
markLoading(state, batch) ==
    IF batch = << >> THEN state
    ELSE markLoading(setImageLoading(state, Head(batch).cardId, TRUE),
                     Tail(batch))

\* one round of the while loop, up to `await Promise.allSettled(promises)`
runBatch(state) ==
    markLoading(dequeueImageRequests(state, Len(batchOf(state))),
                batchOf(state))

\* the requests a round starts, owned by the invocation that runs the loop
attemptsOf(batch, loop) ==
    [i \in 1..Len(batch) |->
        [cardId |-> batch[i].cardId, loop |-> loop, stage |-> "generating"]]

\* a wait that is over as soon as one request of the batch has settled
batchSettledAfterFirst(reqs, loop) ==
    Cardinality({r \in 1..Len(reqs) : reqs[r].loop = loop})
        < CONCURRENT_REQUEST_LIMIT

\* await Promise.allSettled(promises): no request of this loop is pending
batchSettled(reqs, loop) ==
    \A r \in 1..Len(reqs) : reqs[r].loop # loop

\* a failure path without the finally block
requestFailedStaysLoading(state, cardId) ==
    setImageError(state, cardId, TRUE)

\* setImageError(true) of the else branch or the catch block, then the
\* finally block
requestFailed(state, cardId) ==
    setImageLoading(setImageError(state, cardId, TRUE), cardId, FALSE)

\* setImageUrl after the blob was saved, then the finally block
requestSucceeded(state, cardId) ==
    setImageLoading(setImageUrl(state, cardId, GeneratedUrl), cardId, FALSE)

\* a hydration that makes a URL for every cached image
urlsToHydrateAll(state, cachedImages) ==
    [c \in cachedImages |-> HydratedUrl]

\* the loop of hydrateImageCache: a URL for each cached image whose cardId
\* has no entry in the imageUrls of the state
urlsToHydrate(state, cachedImages) ==
    [c \in {item \in cachedImages : state.imageUrls[item] = NoUrl} |->
        HydratedUrl]

\* the part of hydrateImageCache after `await dbService.getAllImages()`
hydrate(state, cachedImages) ==
    LET urls == urlsToHydrate(state, cachedImages)
    IN  IF DOMAIN urls # {} THEN setImageUrls(state, urls) ELSE state

\* seq without its r-th element
RemoveAt(seq, r) == SubSeq(seq, 1, r - 1) \o SubSeq(seq, r + 1, Len(seq))

-----------------------------------------------------------------------------
(* Actions: one per dispatched operation *)

Commit(st) ==
    /\ timeSpent' = st.timeSpent
    /\ objects' = st.objects
    /\ events' = st.events
    /\ sublocations' = st.sublocations
    /\ locations' = st.locations
    /\ characters' = st.characters
    /\ evidence' = st.evidence
    /\ testimonies' = st.testimonies
    /\ UNCHANGED <<caseFile, cfLast, imageVars>>

\* cost: the time the operation was dispatched with (0 when it carries none)
Op(op, cost, branch) == [op |-> op, cost |-> cost, branch |-> branch]

NoCredit == [o \in AllObjIds |-> 0]

CfOp(op, branch) == [op |-> op, branch |-> branch]

QOp(op, branch, cardId) == [op |-> op, branch |-> branch, cardId |-> cardId]

\* what the blob cache holds from earlier sessions
InitialCaches == {{}, {1}}

\* no hydrateImageCache is waiting for the cache
NoHydration == [pending |-> FALSE, cachedImages |-> {}]

\* drain of a run that was not started on a preset queue
NoDrain == [k |-> -1, batches |-> << >>]

InitStore ==
    /\ timeSpent = createEmptyInitialState.timeSpent
    /\ objects = createEmptyInitialState.objects
    /\ events = createEmptyInitialState.events
    /\ sublocations = createEmptyInitialState.sublocations
    /\ locations = createEmptyInitialState.locations
    /\ characters = createEmptyInitialState.characters
    /\ evidence = createEmptyInitialState.evidence
    /\ testimonies = createEmptyInitialState.testimonies
    /\ last = Op("init", 0, "none")
    /\ credited = NoCredit
    /\ cycle = NoCredit
    /\ tapped = NoCredit
    /\ cfLast = CfOp("init", "none")
    /\ loops = [i \in LoopIds |-> "idle"]
    /\ requests = << >>
    /\ hydration = NoHydration
    /\ qLast = QOp("init", "none", 0)

\* the store after construction, in a browser whose blob cache is empty
Init ==
    /\ InitStore
    /\ caseFile = createEmptyCaseFileState
    /\ images = createEmptyImageState
    /\ cache = {}
    /\ drain = NoDrain

\* the store after construction, the blob cache as earlier sessions left it
InitQueue ==
    /\ InitStore
    /\ caseFile = createEmptyCaseFileState
    /\ images = createEmptyImageState
    /\ cache \in InitialCaches
    /\ drain = NoDrain

\* dispatch(loadStoryCartridge(path)) fulfilled: a new session starts
Load(c) ==
    LET st == loadFulfilled(Store, loadCartridgeFromService(c))
    IN  /\ Commit(st)
        /\ last' = Op("loadStoryCartridge", 0, st.branch)
        /\ credited' = NoCredit
        /\ cycle' = NoCredit
        /\ tapped' = NoCredit

AddToTimeline(id) ==
    LET st == addToTimeline(Store, id)
    IN  /\ st.timeSpent <= MaxTime
        /\ Commit(st)
        /\ last' = Op("addToTimeline", 0, st.branch)
        /\ credited' = IF st.branch = "firstUnlock"
                       THEN [credited EXCEPT ![id] = @ + 1]
                       ELSE credited
        /\ cycle' = IF id \in DOMAIN objects
                    THEN [cycle EXCEPT ![id] = 1]
                    ELSE cycle
        /\ UNCHANGED tapped

RemoveFromTimeline(id) ==
    LET st == removeFromTimeline(Store, id)
    IN  /\ Commit(st)
        /\ last' = Op("removeFromTimeline", 0, st.branch)
        /\ cycle' = IF id \in DOMAIN objects /\ cycle[id] = 1
                    THEN [cycle EXCEPT ![id] = 2]
                    ELSE cycle
        /\ UNCHANGED <<credited, tapped>>

AssignEvidenceToSuspect(objectId, suspectId) ==
    LET st == assignEvidenceToSuspect(Store, objectId, suspectId)
    IN  /\ Commit(st)
        /\ last' = Op("assignEvidenceToSuspect", 0, st.branch)
        /\ UNCHANGED <<credited, cycle, tapped>>

UnlockEntity(type, ref, timeToAdd) ==
    LET st == unlockEntity(Store, type, ref, timeToAdd)
    IN  /\ st.timeSpent <= MaxTime
        /\ Commit(st)
        /\ last' = Op("unlockEntity", timeToAdd, st.branch)
        /\ UNCHANGED <<credited, cycle, tapped>>

\* dispatched from the interrogation view for a character of the store
CreateEvidenceFromTestimony(chunkId) ==
    LET st == createEvidenceFromTestimony(Store, chunkId)
    IN  /\ Len(characters) > 0
        /\ st.timeSpent <= MaxTime
        /\ Commit(st)
        /\ last' = Op("createEvidenceFromTestimony",
                      CREATE_TESTIMONY_TIME_ADDITION, st.branch)
        /\ cycle' = [cycle EXCEPT ![TestimonyObjectId(chunkId)] = 1]
        /\ UNCHANGED <<credited, tapped>>

Next ==
    \/ \E c \in Cartridges : Load(c)
    \/ \E id \in AddIds : AddToTimeline(id)
    \/ \E id \in AddIds : RemoveFromTimeline(id)
    \/ \E objectId \in AssignIds, suspectId \in SuspectIds :
            AssignEvidenceToSuspect(objectId, suspectId)
    \/ \E target \in UnlockTargets, timeToAdd \in UnlockTimes :
            UnlockEntity(target[1], target[2], timeToAdd)
    \/ \E chunkId \in ChunkIds : CreateEvidenceFromTestimony(chunkId)

Spec == Init /\ [][Next]_vars

\* the coordinates of a drop on the board are pixel offsets in the code; the
\* model takes them from 0..MaxCoord
MaxCoord == 1

\* the ids a dragged board item can carry
DropIds == {"ev-initial-crime", "ev-o1", "ev-o2", "missing"}

\* setEvidencePosition({id, x, y}) as EvidenceScreen calls it: the component
\* imports the name from store/storySlice, which has no such reducer and
\* exports no such action creator, so the call throws a TypeError (or the
\* module fails to link) and nothing is dispatched
setEvidencePosition(st, id, x, y) == [st EXCEPT !.branch = "threw"]

\* the drop handler of the evidence board
SetEvidencePosition(id, x, y) ==
    LET st == setEvidencePosition(Store, id, x, y)
    IN  /\ Commit(st)
        /\ last' = [op |-> "setEvidencePosition", cost |-> 0,
                    branch |-> st.branch, id |-> id, x |-> x, y |-> y]
        /\ UNCHANGED <<credited, cycle, tapped>>

\* the timeline and the board: loads, adds, removes and drops
NextBoard ==
    \/ \E c \in Cartridges : Load(c)
    \/ \E id \in AddIds : AddToTimeline(id)
    \/ \E id \in AddIds : RemoveFromTimeline(id)
    \/ \E id \in DropIds, x \in 0..MaxCoord, y \in 0..MaxCoord :
            SetEvidencePosition(id, x, y)

SpecBoard == Init /\ [][NextBoard]_vars

\* the toggle button of the card of an object of the store
ToggleEvidence(id, isAdding) ==
    /\ id \in DOMAIN objects
    /\ LET st == handleEvidenceToggle(Store, id, isAdding)
           added == isAdding /\ ~EvidenceSome(evidence, id)
       IN  /\ st.timeSpent <= MaxTime
           /\ Commit(st)
           /\ last' = Op("handleEvidenceToggle", 0, st.branch)
           /\ credited' = IF added /\ ~objects[id].hasBeenUnlocked
                          THEN [credited EXCEPT ![id] = @ + 1]
                          ELSE credited
           /\ cycle' = CASE added -> [cycle EXCEPT ![id] = 1]
                         [] st.branch = "removedByToggle" /\ cycle[id] = 1 ->
                                [cycle EXCEPT ![id] = 2]
                         [] OTHER -> cycle
           /\ tapped' = IF st.branch = "tapped"
                        THEN [tapped EXCEPT ![id] = @ + 1]
                        ELSE tapped

\* the store driven by the cards: the toggle flow, unlocks dispatched by
\* other cards, drops on the timeline view and testimony evidence
NextCard ==
    \/ \E c \in Cartridges : Load(c)
    \/ \E id \in AllObjIds, isAdding \in BOOLEAN : ToggleEvidence(id, isAdding)
    \/ \E id \in AddIds : AddToTimeline(id)
    \/ \E target \in UnlockTargets, timeToAdd \in UnlockTimes :
            UnlockEntity(target[1], target[2], timeToAdd)
    \/ \E chunkId \in ChunkIds : CreateEvidenceFromTestimony(chunkId)

SpecCard == Init /\ [][NextCard]_vars

-----------------------------------------------------------------------------
(* Actions of the case file *)

LoadCaseFile(caseFileData) ==
    /\ caseFile' = loadCaseFileFulfilled(caseFile, caseFileData)
    /\ cfLast' = CfOp("loadCaseFileFromCartridge", "loaded")
    /\ UNCHANGED <<storyVars, imageVars>>

SetViewMode(payload) ==
    /\ caseFile' = setViewMode(caseFile, payload)
    /\ cfLast' = CfOp("setViewMode", "set")
    /\ UNCHANGED <<storyVars, imageVars>>

SetActiveTab(payload) ==
    /\ caseFile' = setActiveTab(caseFile, payload)
    /\ cfLast' = CfOp("setActiveTab", "set")
    /\ UNCHANGED <<storyVars, imageVars>>

SetSelectedClueId(payload) ==
    /\ caseFile' = setSelectedClueId(caseFile, payload)
    /\ cfLast' = CfOp("setSelectedClueId", "set")
    /\ UNCHANGED <<storyVars, imageVars>>

PlaceClueInSlot(slotId) ==
    LET state == placeClueInSlot(caseFile, slotId)
    IN  /\ state.score <= MaxScore
        /\ caseFile' = state
        /\ cfLast' = CfOp("placeClueInSlot", placeBranch(caseFile, slotId))
        /\ UNCHANGED <<storyVars, imageVars>>

ClearLastIncorrectSlot ==
    /\ caseFile' = clearLastIncorrectSlot(caseFile)
    /\ cfLast' = CfOp("clearLastIncorrectSlot", "cleared")
    /\ UNCHANGED <<storyVars, imageVars>>

\* the Reset button of the evidence pool
ResetInvestigation ==
    /\ caseFile' = resetInvestigation(caseFile)
    /\ cfLast' = CfOp("resetInvestigation", "threw")
    /\ UNCHANGED <<storyVars, imageVars>>

NextCaseFile ==
    \/ \E caseFileData \in CaseFileDocuments : LoadCaseFile(caseFileData)
    \/ \E payload \in ViewModes : SetViewMode(payload)
    \/ \E payload \in Tabs : SetActiveTab(payload)
    \/ \E payload \in SelectableIds : SetSelectedClueId(payload)
    \/ \E slotId \in SlotIds : PlaceClueInSlot(slotId)
    \/ ClearLastIncorrectSlot
    \/ ResetInvestigation

SpecCaseFile == Init /\ [][NextCaseFile]_vars

\* the store once the sub-document with two supporting slots is loaded
InitPlacement ==
    /\ InitStore
    /\ caseFile = loadCaseFileFulfilled(createEmptyCaseFileState,
                                        CaseFileDocumentSupporting)
    /\ images = createEmptyImageState
    /\ cache = {}
    /\ drain = NoDrain

\* the placement puzzle on that sub-document: selections, tab changes and
\* placements in any order
NextPlacement ==
    \/ \E payload \in Tabs : SetActiveTab(payload)
    \/ \E payload \in SupportingClueIds \cup {Null} : SetSelectedClueId(payload)
    \/ \E slotId \in SupportingSlotNames : PlaceClueInSlot(slotId)

SpecPlacement == InitPlacement /\ [][NextPlacement]_vars

-----------------------------------------------------------------------------
(* Actions of the image queue *)

NotImages == <<storyVars, caseFile, cfLast>>

\* dispatch(queueImageGeneration({cardId, prompt, colorTreatment}))
QueueImageGeneration(cardId) ==
    /\ images' = queueImageGeneration(images, [cardId |-> cardId])
    /\ qLast' = QOp("queueImageGeneration",
                    IF images' = images THEN "skipped" ELSE "queued", cardId)
    /\ UNCHANGED <<NotImages, loops, requests, cache, hydration, drain>>

\* the batches issued so far (the cardIds of each), kept for a run that
\* starts on a preset queue
Issued(batch) ==
    IF drain.k >= 0
    THEN [drain EXCEPT !.batches =
            Append(@, [j \in 1..Len(batch) |-> batch[j].cardId])]
    ELSE drain

\* dispatch(processImageGenerationQueue()): the guard and, when it passes,
\* everything up to the first await
ProcessQueue(i) ==
    /\ loops[i] = "idle"
    /\ IF orchestratorExits(images)
       THEN /\ qLast' = QOp("processImageGenerationQueue", "exited", 0)
            /\ UNCHANGED <<images, loops, requests, drain>>
       ELSE LET started == setIsProcessingQueue(images, TRUE)
            IN  /\ images' = runBatch(started)
                /\ requests' = requests \o attemptsOf(batchOf(started), i)
                /\ loops' = [loops EXCEPT ![i] = "awaiting"]
                /\ drain' = Issued(batchOf(started))
                /\ qLast' = QOp("processImageGenerationQueue", "started", 0)
    /\ UNCHANGED <<NotImages, cache, hydration>>

\* the loop after the batch has settled and the delay has passed: the next
\* round, or the end of the thunk
NextBatch(i) ==
    /\ loops[i] = "awaiting"
    /\ batchSettled(requests, i)
    /\ IF Len(images.imageGenerationQueue) > 0
       THEN /\ images' = runBatch(images)
            /\ requests' = requests \o attemptsOf(batchOf(images), i)
            /\ drain' = Issued(batchOf(images))
            /\ qLast' = QOp("processImageGenerationQueue", "nextBatch", 0)
            /\ UNCHANGED loops
       ELSE /\ images' = setIsProcessingQueue(images, FALSE)
            /\ loops' = [loops EXCEPT ![i] = "idle"]
            /\ qLast' = QOp("processImageGenerationQueue", "finished", 0)
            /\ UNCHANGED <<requests, drain>>
    /\ UNCHANGED <<NotImages, cache, hydration>>

\* generateImageAPI resolves with an image: the blob is built and
\* dbService.saveImage is called
GenerateReturnsImage(r) ==
    /\ r \in 1..Len(requests)
    /\ requests[r].stage = "generating"
    /\ requests' = [requests EXCEPT ![r].stage = "saving"]
    /\ qLast' = QOp("generateImageAPI", "image", requests[r].cardId)
    /\ UNCHANGED <<NotImages, images, loops, cache, hydration, drain>>

\* generateImageAPI resolves with nothing, or it (or the blob conversion)
\* throws
GenerateFails(r, how) ==
    /\ r \in 1..Len(requests)
    /\ requests[r].stage = "generating"
    /\ images' = requestFailed(images, requests[r].cardId)
    /\ requests' = RemoveAt(requests, r)
    /\ qLast' = QOp("generateImageAPI", how, requests[r].cardId)
    /\ UNCHANGED <<NotImages, loops, cache, hydration, drain>>

\* dbService.saveImage resolves: the URL is published
SaveResolves(r) ==
    /\ r \in 1..Len(requests)
    /\ requests[r].stage = "saving"
    /\ images' = requestSucceeded(images, requests[r].cardId)
    /\ cache' = cache \cup {requests[r].cardId}
    /\ requests' = RemoveAt(requests, r)
    /\ qLast' = QOp("saveImage", "saved", requests[r].cardId)
    /\ UNCHANGED <<NotImages, loops, hydration, drain>>

\* dbService.saveImage rejects
SaveThrows(r) ==
    /\ r \in 1..Len(requests)
    /\ requests[r].stage = "saving"
    /\ images' = requestFailed(images, requests[r].cardId)
    /\ requests' = RemoveAt(requests, r)
    /\ qLast' = QOp("saveImage", "threw", requests[r].cardId)
    /\ UNCHANGED <<NotImages, loops, cache, hydration, drain>>

\* dispatch(hydrateImageCache()): dbService.getAllImages reads the cache
HydrateRead ==
    /\ ~hydration.pending
    /\ hydration' = [pending |-> TRUE, cachedImages |-> cache]
    /\ qLast' = QOp("hydrateImageCache", "reading", 0)
    /\ UNCHANGED <<NotImages, images, loops, requests, cache, drain>>

\* getAllImages has resolved: the rest of the thunk runs
HydrateApply ==
    /\ hydration.pending
    /\ images' = hydrate(images, hydration.cachedImages)
    /\ hydration' = NoHydration
    /\ qLast' = QOp("hydrateImageCache",
                    IF images' = images THEN "nothing" ELSE "hydrated", 0)
    /\ UNCHANGED <<NotImages, loops, requests, cache, drain>>

\* getAllImages has rejected: the catch block logs and returns
HydrateFails ==
    /\ hydration.pending
    /\ hydration' = NoHydration
    /\ qLast' = QOp("hydrateImageCache", "failed", 0)
    /\ UNCHANGED <<NotImages, images, loops, requests, cache, drain>>

\* a request in flight settles or moves on
Settle ==
    \E r \in 1..CONCURRENT_REQUEST_LIMIT * Cardinality(LoopIds) :
        \/ GenerateReturnsImage(r)
        \/ \E how \in {"nothing", "threw"} : GenerateFails(r, how)
        \/ SaveResolves(r)
        \/ SaveThrows(r)

NextQueue ==
    \/ \E cardId \in ImageCardIds : QueueImageGeneration(cardId)
    \/ \E i \in LoopIds : ProcessQueue(i)
    \/ \E i \in LoopIds : NextBatch(i)
    \/ Settle
    \/ HydrateRead
    \/ HydrateApply
    \/ HydrateFails

SpecQueue == InitQueue /\ [][NextQueue]_vars

\* the queue and its processor without the hydration, which writes
\* imageUrls only
NextRequests ==
    \/ \E cardId \in ImageCardIds : QueueImageGeneration(cardId)
    \/ \E i \in LoopIds : ProcessQueue(i)
    \/ \E i \in LoopIds : NextBatch(i)
    \/ Settle

\* every request of the image service and of the blob store resolves or
\* rejects in the end
SpecQueueFair == Init /\ [][NextRequests]_vars /\ WF_vars(Settle)

\* the store in which k requests of distinct cards have been admitted and no
\* invocation of the queue processor has been made yet
InitDrain ==
    /\ InitStore
    /\ caseFile = createEmptyCaseFileState
    /\ \E k \in 0..MaxRequests :
         /\ images = [createEmptyImageState EXCEPT
                        !.imageGenerationQueue =
                            [j \in 1..k |-> [cardId |-> j]]]
         /\ drain = [k |-> k, batches |-> << >>]
    /\ cache = {}

\* no admission and no hydration after the start
NextDrain ==
    \/ \E i \in LoopIds : ProcessQueue(i)
    \/ \E i \in LoopIds : NextBatch(i)
    \/ Settle

\* the queue processor is invoked, every request resolves or rejects, and
\* the timer of the delay between batches fires
SpecDrain ==
    /\ InitDrain
    /\ [][NextDrain]_vars
    /\ WF_vars(\E i \in LoopIds : ProcessQueue(i))
    /\ WF_vars(\E i \in LoopIds : NextBatch(i))
    /\ WF_vars(Settle)

-----------------------------------------------------------------------------
(* Vocabulary of the properties *)

\* number of Evidence entries with the given cardId
CountCard(ev, id) == Cardinality({i \in 1..Len(ev) : ev[i].cardId = id})

IsLoadStep == last'.op = "loadStoryCartridge"

\* the step is a dispatch of the named operation
IsStep(op) == last'.op = op

\* some Evidence entry refers to the card
OnTimeline(ev, id) == CountCard(ev, id) > 0

\* hasBeenUnlocked of an object goes from false to true in this step
BecomesUnlocked(id) ==
    /\ id \in DOMAIN objects /\ id \in DOMAIN objects'
    /\ ~objects[id].hasBeenUnlocked
    /\ objects'[id].hasBeenUnlocked

\* the ref names an existing entity of the given type
Resolves(type, ref) ==
    CASE type = "location" -> Includes(locations, ref)
      [] type = "sublocation" -> ref \in DOMAIN sublocations
      [] type = "evidence" -> ref \in DOMAIN objects
      [] type = "character" ->
            \E i \in 1..Len(characters) : characters[i].id = ref
      [] type = "event" -> ref \in DOMAIN events
      [] OTHER -> FALSE

entityVars == <<objects, events, sublocations, locations, characters, evidence>>

-----------------------------------------------------------------------------
(* Properties of the Entity Store *)

\* C1: in every reachable state the Evidence list holds at most one entry
\* per cardId.
C1_OneEntryPerCard ==
    \A i, j \in 1..Len(evidence) :
        evidence[i].cardId = evidence[j].cardId => i = j

\* an add was refused because the card was already on a timeline of several
\* entries
C1_Witness ==
    /\ last.op = "addToTimeline"
    /\ last.branch = "alreadyOnTimeline"
    /\ Len(evidence) >= 2

C3_UnlockMonotonic ==
    [][~IsLoadStep =>
        /\ \A id \in DOMAIN objects :
              objects[id].hasBeenUnlocked =>
                  id \in DOMAIN objects' /\ objects'[id].hasBeenUnlocked
        /\ \A id \in DOMAIN events :
              events[id].hasBeenUnlocked =>
                  id \in DOMAIN events' /\ events'[id].hasBeenUnlocked
        /\ \A id \in DOMAIN sublocations :
              sublocations[id].hasBeenUnlocked =>
                  id \in DOMAIN sublocations'
                  /\ sublocations'[id].hasBeenUnlocked]_vars

\* an unlocked object has just been taken off the timeline, with an event and
\* a sublocation unlocked too
C3_Witness ==
    /\ last.op = "removeFromTimeline"
    /\ last.branch = "removed"
    /\ \E id \in DOMAIN objects :
          objects[id].hasBeenUnlocked /\ ~objects[id].isEvidence
    /\ \E id \in DOMAIN events : events[id].hasBeenUnlocked
    /\ \E id \in DOMAIN sublocations : sublocations[id].hasBeenUnlocked

\* C4: after addToTimeline(o) and then removeFromTimeline(o), a further
\* addToTimeline(o) leaves timeSpent unchanged and restores exactly one
\* Evidence entry with cardId o.
C4_ReAddFreeAndRestored ==
    [][\A id \in AllObjIds :
        (IsStep("addToTimeline") /\ id \in DOMAIN objects /\ cycle[id] = 2
            /\ AddToTimeline(id)) =>
            /\ timeSpent' = timeSpent
            /\ CountCard(evidence', id) = 1]_vars

\* C5: removeFromTimeline leaves timeSpent as it was.
C5_RemoveKeepsTime ==
    [][\A id \in AddIds :
        (IsStep("removeFromTimeline") /\ RemoveFromTimeline(id)) =>
            timeSpent' = timeSpent]_vars

\* a charged object has just been removed and the time is still spent
C5_Witness ==
    /\ last.op = "removeFromTimeline"
    /\ last.branch = "removed"
    /\ \E id \in DOMAIN objects : credited[id] = 1 /\ ~objects[id].isEvidence
    /\ timeSpent >= 2

\* C6: addToTimeline(o) on an existing object that is not on the timeline
\* ends with o.isEvidence true and an Evidence entry with cardId o.
C6_AddPutsOnTimeline ==
    [][\A id \in AllObjIds :
        (IsStep("addToTimeline") /\ id \in DOMAIN objects
            /\ ~OnTimeline(evidence, id) /\ AddToTimeline(id)) =>
            /\ objects'[id].isEvidence
            /\ OnTimeline(evidence', id)]_vars

\* C7: addToTimeline(id) changes neither timeSpent, nor any object, nor the
\* Evidence list when no object has that id or the object is already on the
\* timeline.
C7_AddNoOp ==
    [][\A id \in AddIds :
        (IsStep("addToTimeline")
            /\ (id \notin DOMAIN objects \/ OnTimeline(evidence, id))
            /\ AddToTimeline(id)) =>
            UNCHANGED <<timeSpent, entityVars>>]_vars

\* an add of a card already on the timeline has just been refused
C7_Witness ==
    /\ last.op = "addToTimeline"
    /\ last.branch = "alreadyOnTimeline"
    /\ \E id \in DOMAIN objects :
          objects[id].isEvidence /\ OnTimeline(evidence, id)

\* C8: removeFromTimeline(o) on an object that has an Evidence entry sets
\* isEvidence false, empties the suspect assignments and leaves no entry
\* with cardId o.
C8_RemoveClears ==
    [][\A id \in AllObjIds :
        (IsStep("removeFromTimeline") /\ id \in DOMAIN objects
            /\ OnTimeline(evidence, id) /\ RemoveFromTimeline(id)) =>
            /\ ~objects'[id].isEvidence
            /\ objects'[id].assignedToSuspectIds = << >>
            /\ ~OnTimeline(evidence', id)]_vars

\* an object has just been removed while other cards stay on the timeline
C8_Witness ==
    /\ last.op = "removeFromTimeline"
    /\ last.branch = "removed"
    /\ Len(evidence) >= 2
    /\ \E id \in DOMAIN objects :
          /\ cycle[id] = 2
          /\ ~objects[id].isEvidence
          /\ ~OnTimeline(evidence, id)

\* C9: every unlockEntity call adds exactly its timeToAdd to timeSpent,
\* whatever the type and whether or not the target is already unlocked; for
\* location and character targets nothing else changes.
C9_UnlockAlwaysCharges ==
    [][\A target \in UnlockTargets, timeToAdd \in UnlockTimes :
        (IsStep("unlockEntity") /\ last'.cost = timeToAdd
            /\ UnlockEntity(target[1], target[2], timeToAdd)) =>
            /\ timeSpent' = timeSpent + timeToAdd
            /\ target[1] \in {"location", "character"} =>
                    UNCHANGED entityVars]_vars

\* a call on an already unlocked target has just charged its time
C9_Witness ==
    /\ last.op = "unlockEntity"
    /\ last.branch = "alreadyUnlocked"
    /\ last.cost = 1
    /\ timeSpent >= 2

\* C10 as stated: unlockEntity with a ref that resolves to nothing leaves
\* the whole store, timeSpent included, unchanged.
C10_MissingRefIgnored ==
    [][\A target \in UnlockTargets, timeToAdd \in UnlockTimes :
        (IsStep("unlockEntity") /\ last'.cost = timeToAdd
            /\ ~Resolves(target[1], target[2])
            /\ UnlockEntity(target[1], target[2], timeToAdd)) =>
            UNCHANGED <<timeSpent, entityVars>>]_vars

\* C10 amended: unlockEntity with a ref that resolves to nothing changes no
\* entity and no Evidence entry, but still adds its timeToAdd to timeSpent.
C10_MissingRefOnlyCharges ==
    [][\A target \in UnlockTargets, timeToAdd \in UnlockTimes :
        (IsStep("unlockEntity") /\ last'.cost = timeToAdd
            /\ ~Resolves(target[1], target[2])
            /\ UnlockEntity(target[1], target[2], timeToAdd)) =>
            /\ UNCHANGED entityVars
            /\ timeSpent' = timeSpent + timeToAdd]_vars

\* a call whose ref named no entity has just charged its time
C10_Witness ==
    /\ last.op = "unlockEntity"
    /\ last.branch = "noTarget"
    /\ last.cost = 1
    /\ timeSpent >= 1

\* C11 as stated: in every reachable state each sublocation is visible
\* exactly when it has been unlocked.
C11_VisibleIffUnlocked ==
    \A id \in DOMAIN sublocations :
        sublocations[id].isVisible = sublocations[id].hasBeenUnlocked

\* C11 amended: after Load the two flags of a sublocation are changed only
\* by unlockEntity on a sublocation that is still locked, which sets both to
\* true; so flags that agree after Load agree from then on, and flags the
\* cartridge sets differently stay different until such an unlock.
C11_SyncedByUnlockOnly ==
    [][\A id \in DOMAIN sublocations :
        ~IsLoadStep =>
            /\ id \in DOMAIN sublocations'
            /\ (sublocations'[id] # sublocations[id]) =>
                    /\ IsStep("unlockEntity")
                    /\ ~sublocations[id].hasBeenUnlocked
                    /\ sublocations'[id].isVisible
                    /\ sublocations'[id].hasBeenUnlocked
            /\ (IsStep("unlockEntity") /\ last'.branch = "unlocked"
                    /\ ~sublocations[id].hasBeenUnlocked
                    /\ \E timeToAdd \in UnlockTimes :
                            UnlockEntity("sublocation", id, timeToAdd)) =>
                    /\ sublocations'[id].isVisible
                    /\ sublocations'[id].hasBeenUnlocked
            /\ (sublocations[id].isVisible = sublocations[id].hasBeenUnlocked) =>
                    (sublocations'[id].isVisible
                        = sublocations'[id].hasBeenUnlocked)]_vars

\* a locked sublocation has just been unlocked and is visible, next to one
\* that was loaded unlocked and is still hidden
C11_Witness ==
    /\ last.op = "unlockEntity"
    /\ last.branch = "unlocked"
    /\ \E id \in DOMAIN sublocations :
          sublocations[id].isVisible /\ sublocations[id].hasBeenUnlocked
    /\ \E id \in DOMAIN sublocations :
          sublocations[id].hasBeenUnlocked /\ ~sublocations[id].isVisible

-----------------------------------------------------------------------------
(* Properties of the card toggle flow *)

\* the object exists and declares at least one unlock entry
HasUnlockEntries(id) ==
    /\ id \in DOMAIN objects
    /\ "unlocks" \in DOMAIN objects[id]
    /\ Len(objects[id].unlocks) > 0

\* the sum of the times of a list of unlock entries
RECURSIVE SumOfTimes(_)
SumOfTimes(unlocks) ==
    IF unlocks = << >> THEN 0
    ELSE Head(unlocks).time + SumOfTimes(Tail(unlocks))

\* every evidence entry of the list that names an object finds it unlocked
\* in the next state
EvidenceTargetsUnlocked(unlocks) ==
    \A i \in 1..Len(unlocks) :
        (unlocks[i].type = "evidence" /\ unlocks[i].ref \in DOMAIN objects) =>
            objects'[unlocks[i].ref].hasBeenUnlocked

\* C12 as stated: the first add of an object with unlock entries through the
\* card toggle dispatches each entry once, and no later toggle of that
\* object dispatches them again.
C12_TappedOnFirstAdd ==
    /\ [](\A id \in AllObjIds : tapped[id] <= 1)
    /\ [][\A id \in ObjIds :
            (IsStep("handleEvidenceToggle") /\ HasUnlockEntries(id)
                /\ cycle[id] = 0 /\ ~OnTimeline(evidence, id)
                /\ ToggleEvidence(id, TRUE)) =>
                tapped'[id] = tapped[id] + 1]_vars

\* What the flow does: the card toggle dispatches the unlock entries of an
\* object, each once and with its own time, exactly when it adds the object
\* while its hasBeenUnlocked is still false; that happens at most once per
\* object.  An add of an object that is already unlocked (by the cartridge,
\* by an evidence unlock of another card, by a drop on the timeline view or
\* by an earlier add) dispatches nothing and is free.
CardFlowTapsOnFirstUnlockOnly ==
    /\ [](\A id \in AllObjIds : tapped[id] <= 1)
    /\ [][\A id \in ObjIds :
            /\ (tapped'[id] # tapped[id] /\ ~IsLoadStep) =>
                    /\ IsStep("handleEvidenceToggle")
                    /\ ToggleEvidence(id, TRUE)
                    /\ BecomesUnlocked(id)
            /\ (IsStep("handleEvidenceToggle") /\ HasUnlockEntries(id)
                    /\ ~objects[id].hasBeenUnlocked
                    /\ ~OnTimeline(evidence, id)
                    /\ ToggleEvidence(id, TRUE)) =>
                    /\ tapped'[id] = tapped[id] + 1
                    /\ timeSpent' = timeSpent + TimeToAddOf(objects[id])
                                        + SumOfTimes(objects[id].unlocks)
                    /\ EvidenceTargetsUnlocked(objects[id].unlocks)
            /\ (IsStep("handleEvidenceToggle") /\ HasUnlockEntries(id)
                    /\ objects[id].hasBeenUnlocked
                    /\ ToggleEvidence(id, TRUE)) =>
                    /\ tapped'[id] = tapped[id]
                    /\ timeSpent' = timeSpent
                    /\ UNCHANGED <<events, sublocations>>
                    /\ \A o \in DOMAIN objects :
                          objects'[o].hasBeenUnlocked = objects[o].hasBeenUnlocked
            /\ (IsStep("handleEvidenceToggle") /\ id \in DOMAIN objects
                    /\ ToggleEvidence(id, FALSE)) =>
                    tapped'[id] = tapped[id]]_vars

-----------------------------------------------------------------------------
(* Properties of the Case File Engine *)

\* the step is a dispatch of the named case-file operation
IsCfStep(op) == cfLast'.op = op

\* the selected clue, the target slot and the anchor of the active tab exist
AllResolve(slotId) ==
    /\ caseFile.selectedClueId \in DOMAIN caseFile.clues
    /\ slotId \in DOMAIN caseFile.slots
    /\ \E i \in 1..Len(caseFile.anchors) :
          caseFile.anchors[i].id = caseFile.activeTab

SelectedClue == caseFile.clues[caseFile.selectedClueId]

\* the first anchor whose id is the active tab
ActiveAnchor ==
    caseFile.anchors[CHOOSE i \in 1..Len(caseFile.anchors) :
        /\ caseFile.anchors[i].id = caseFile.activeTab
        /\ \A j \in 1..Len(caseFile.anchors) :
              caseFile.anchors[j].id = caseFile.activeTab => i <= j]

\* the slot of the store with that id holds a clue
SlotFilled(cf, slotId) ==
    slotId \in DOMAIN cf.slots /\ cf.slots[slotId].placedClueId # Null

SupportingSlotIds(anchor) ==
    {anchor.supportingSlots[i].slotId : i \in 1..Len(anchor.supportingSlots)}

\* the three conditions of a supporting placement
SupportingConditions(slotId) ==
    /\ SlotFilled(caseFile, ActiveAnchor.primarySlot.slotId)
    /\ slotId \in SupportingSlotIds(ActiveAnchor)
    /\ SelectedClue.category = ActiveAnchor.id

\* the attempt is a correct placement in the words of the placement rules
CorrectAttempt(slotId) ==
    /\ AllResolve(slotId)
    /\ \/ /\ SelectedClue.type = "PRIMARY"
          /\ "correctEventKey" \in DOMAIN caseFile.slots[slotId]
          /\ caseFile.slots[slotId].correctEventKey = SelectedClue.eventKey
       \/ /\ SelectedClue.type = "SUPPORTING"
          /\ SupportingConditions(slotId)

\* this step put the selected clue into the slot
Placed(slotId) ==
    /\ caseFile'.slots[slotId].placedClueId = caseFile.selectedClueId
    /\ caseFile'.selectedClueId = Null

\* C13: the score never decreases under placeClueInSlot, setSelectedClueId,
\* setActiveTab and setViewMode, in any order; only a placement changes it.
C13_ScoreNonDecreasing ==
    [][/\ (cfLast'.op \in {"placeClueInSlot", "setSelectedClueId",
                           "setActiveTab", "setViewMode"}) =>
              caseFile'.score >= caseFile.score
       /\ (cfLast'.op \in {"setSelectedClueId", "setActiveTab",
                           "setViewMode"}) =>
              caseFile'.score = caseFile.score]_vars

\* an incorrect placement has just been made with points already scored
C13_Witness ==
    /\ cfLast.op = "placeClueInSlot"
    /\ cfLast.branch = "incorrect"
    /\ caseFile.score >= 2
    /\ caseFile.viewMode = "timeline"

\* C14: resetInvestigation completes and leaves score 0, every slot empty,
\* no clue selected and the view mode workspace.
C14_ResetRestoresInitialShape ==
    [][IsCfStep("resetInvestigation") =>
        /\ cfLast'.branch # "threw"
        /\ caseFile'.score = 0
        /\ \A id \in DOMAIN caseFile'.slots :
              caseFile'.slots[id].placedClueId = Null
        /\ caseFile'.selectedClueId = Null
        /\ caseFile'.viewMode = "workspace"]_vars

\* C15: selectIsInvestigationComplete is true exactly when the primary slot
\* and every supporting slot of every anchor hold a clue in the store.
C15_CompleteIffAllSlotsFilled ==
    selectIsInvestigationComplete(caseFile) <=>
        \A i \in 1..Len(caseFile.anchors) :
            /\ SlotFilled(caseFile, caseFile.anchors[i].primarySlot.slotId)
            /\ \A slotId \in SupportingSlotIds(caseFile.anchors[i]) :
                  SlotFilled(caseFile, slotId)

\* all three slots of the two anchors are filled
C15_Witness ==
    /\ Len(caseFile.anchors) = 2
    /\ Cardinality(DOMAIN caseFile.slots) = 3
    /\ \A id \in DOMAIN caseFile.slots :
          caseFile.slots[id].placedClueId # Null

\* C16: an incorrect placement changes only lastIncorrectSlotId, which
\* becomes the target slot id; slots, score and selection stay as they were.
C16_IncorrectOnlyMarks ==
    [][\A slotId \in SlotIds :
        (IsCfStep("placeClueInSlot") /\ AllResolve(slotId)
            /\ ~CorrectAttempt(slotId) /\ PlaceClueInSlot(slotId)) =>
            /\ caseFile'.lastIncorrectSlotId = slotId
            /\ caseFile'.slots = caseFile.slots
            /\ caseFile'.score = caseFile.score
            /\ caseFile'.selectedClueId = caseFile.selectedClueId
            /\ caseFile' = [caseFile EXCEPT !.lastIncorrectSlotId = slotId]]_vars

\* a PRIMARY clue is still selected after being refused by an empty slot
\* with another event key, the score of an earlier placement kept
C16_Witness ==
    /\ cfLast.op = "placeClueInSlot"
    /\ cfLast.branch = "incorrect"
    /\ caseFile.selectedClueId \in DOMAIN caseFile.clues
    /\ caseFile.clues[caseFile.selectedClueId].type = "PRIMARY"
    /\ caseFile.lastIncorrectSlotId \in DOMAIN caseFile.slots
    /\ ~SlotFilled(caseFile, caseFile.lastIncorrectSlotId)
    /\ "correctEventKey" \in DOMAIN caseFile.slots[caseFile.lastIncorrectSlotId]
    /\ caseFile.score > 0

C18_CorrectPlacementEffects ==
    [][\A slotId \in SlotIds :
        (IsCfStep("placeClueInSlot") /\ CorrectAttempt(slotId)
            /\ PlaceClueInSlot(slotId)) =>
            /\ caseFile'.slots[slotId].placedClueId = caseFile.selectedClueId
            /\ caseFile'.score = caseFile.score + SelectedClue.points
                    + (IF "bonusPoints" \in DOMAIN SelectedClue
                       THEN SelectedClue.bonusPoints ELSE 0)
            /\ caseFile'.selectedClueId = Null
            /\ caseFile'.lastIncorrectSlotId = Null
            /\ caseFile.selectedClueId \in DOMAIN caseFile'.clues
            /\ caseFile'.clues = caseFile.clues]_vars

\* the clue with a bonus has just been placed and both its points and its
\* bonus are in the score
C18_Witness ==
    /\ cfLast.op = "placeClueInSlot"
    /\ cfLast.branch = "correct"
    /\ caseFile.selectedClueId = Null
    /\ SlotFilled(caseFile, "m1")
    /\ "bonusPoints" \in DOMAIN caseFile.clues[caseFile.slots["m1"].placedClueId]
    /\ caseFile.score = 4

\* C19: placeClueInSlot changes nothing of the case-file state when no
\* clue is selected or the selected clue, the target slot or the anchor of
\* the active tab does not exist.
C19_UnresolvedNoChange ==
    [][\A slotId \in SlotIds :
        (IsCfStep("placeClueInSlot") /\ ~AllResolve(slotId)
            /\ PlaceClueInSlot(slotId)) =>
            caseFile' = caseFile]_vars

\* a placement returned early for a selected clue of the list because the
\* active tab has no anchor, an earlier incorrect-slot marker still set
C19_Witness ==
    /\ cfLast.op = "placeClueInSlot"
    /\ cfLast.branch = "unresolved"
    /\ caseFile.selectedClueId \in DOMAIN caseFile.clues
    /\ caseFile.activeTab = "opportunity"
    /\ caseFile.lastIncorrectSlotId # Null

\* C20: no step other than a load or a reset empties a filled slot.
C20_FilledStaysFilled ==
    [][(cfLast'.op \notin {"loadCaseFileFromCartridge", "resetInvestigation"}) =>
        \A id \in DOMAIN caseFile.slots :
            SlotFilled(caseFile, id) => SlotFilled(caseFile', id)]_vars

\* an incorrect placement has just been aimed at a filled slot, which still
\* holds its clue
C20_Witness ==
    /\ cfLast.op = "placeClueInSlot"
    /\ cfLast.branch = "incorrect"
    /\ SlotFilled(caseFile, caseFile.lastIncorrectSlotId)

-----------------------------------------------------------------------------
(* Image queue: vocabulary *)

\* the step is the given operation of the image queue
IsQStep(op) == qLast' # qLast /\ qLast'.op = op

\* the step is a dispatch of processImageGenerationQueue, not a later round
\* of a loop that is already running
IsInvocation ==
    /\ qLast'.op = "processImageGenerationQueue"
    /\ qLast'.branch \in {"exited", "started"}

\* the invocations whose loop has not returned
ActiveLoops == {i \in LoopIds : loops[i] # "idle"}

\* the requests in flight for a card
InFlight(cardId) == {r \in 1..Len(requests) : requests[r].cardId = cardId}

\* the cards whose loading flag is set
LoadingCards == {c \in AllCardIds : images.imageLoading[c]}

\* the positions of the queue that hold a request for a card
QueuedAt(cardId) ==
    {k \in 1..Len(images.imageGenerationQueue) :
        images.imageGenerationQueue[k].cardId = cardId}

-----------------------------------------------------------------------------
(* C21 *)

\* C21: at most one invocation of the queue processor runs its loop at any
\* time, and an invocation made while isProcessingQueue is set or while the
\* queue is empty dequeues nothing, starts no request and leaves the image
\* state as it was.
C21_SingleOrchestrator ==
    [][ /\ Cardinality(ActiveLoops') <= 1
        /\ ( /\ IsInvocation
             /\ \/ images.isProcessingQueue
                \/ Len(images.imageGenerationQueue) = 0 )
           => /\ images' = images
              /\ requests' = requests
              /\ loops' = loops ]_vars

\* an invocation has returned at once although requests were waiting,
\* because another invocation was running its loop
C21_Witness ==
    /\ qLast.op = "processImageGenerationQueue"
    /\ qLast.branch = "exited"
    /\ images.isProcessingQueue
    /\ Len(images.imageGenerationQueue) > 0
    /\ Cardinality(ActiveLoops) = 1

-----------------------------------------------------------------------------
(* C22 *)

\* C22: for every cardId at most one generation attempt is in flight at any
\* time, whatever the interleaving of admissions, invocations of the queue
\* processor and completions.
C22_OneAttemptPerCard ==
    \A c \in AllCardIds : Cardinality(InFlight(c)) <= 1

\* a card whose attempt is in flight was offered to the queue again and was
\* not admitted
C22_Witness ==
    /\ qLast.op = "queueImageGeneration"
    /\ qLast.branch = "skipped"
    /\ Cardinality(InFlight(qLast.cardId)) = 1
    /\ Len(requests) = CONCURRENT_REQUEST_LIMIT

-----------------------------------------------------------------------------
(* C25 *)

\* C25: a loop starts its next batch only when no request of a batch is
\* still pending, and at no time are more than CONCURRENT_REQUEST_LIMIT cards
\* loading.
C25_BatchBarrier ==
    [][ /\ Cardinality(LoadingCards') <= CONCURRENT_REQUEST_LIMIT
        /\ Len(requests') <= CONCURRENT_REQUEST_LIMIT
        /\ (IsQStep("processImageGenerationQueue")
                /\ qLast'.branch = "nextBatch")
           => requests = << >> /\ LoadingCards = {} ]_vars

\* a second full batch is in flight
C25_Witness ==
    /\ qLast.op = "processImageGenerationQueue"
    /\ qLast.branch = "nextBatch"
    /\ Len(requests) = CONCURRENT_REQUEST_LIMIT
    /\ Cardinality(LoadingCards) = CONCURRENT_REQUEST_LIMIT

-----------------------------------------------------------------------------
(* C26 *)

\* C26: queueImageGeneration appends the request to the end of the queue
\* exactly when its cardId is not in the queue, has no URL and is not
\* loading; otherwise the state does not change; the queue never holds two
\* requests of one cardId.
C26_AdmissionFilter ==
    [][ /\ \A c \in AllCardIds : Cardinality(QueuedAt(c)') <= 1
        /\ IsQStep("queueImageGeneration")
           => LET c == qLast'.cardId
              IN  IF /\ QueuedAt(c) = {}
                     /\ images.imageUrls[c] = NoUrl
                     /\ ~images.imageLoading[c]
                  THEN images' =
                         [images EXCEPT !.imageGenerationQueue =
                             Append(@, [cardId |-> c])]
                  ELSE images' = images ]_vars

\* a card was refused because it is loading, while another one waits in the
\* queue
C26_Witness ==
    /\ qLast.op = "queueImageGeneration"
    /\ qLast.branch = "skipped"
    /\ images.imageLoading[qLast.cardId]
    /\ QueuedAt(qLast.cardId) = {}
    /\ Len(images.imageGenerationQueue) = 1

-----------------------------------------------------------------------------
(* C27 *)

\* C27: a run of hydrateImageCache never changes an entry that imageUrls
\* already holds, wherever setImageUrl falls between its read of the cache
\* and its dispatch.
C27_HydrationKeepsExisting ==
    [][ IsQStep("hydrateImageCache")
        => \A c \in AllCardIds :
              images.imageUrls[c] # NoUrl
              => images'.imageUrls[c] = images.imageUrls[c] ]_vars

\* a hydration has published the URL of a cached image and left alone the
\* URL that the queue processor had set for another cached image
C27_Witness ==
    /\ qLast.op = "hydrateImageCache"
    /\ qLast.branch = "hydrated"
    /\ \E c \in cache : images.imageUrls[c] = GeneratedUrl
    /\ \E c \in cache : images.imageUrls[c] = HydratedUrl

-----------------------------------------------------------------------------
(* C23 *)

\* the batches of a queue of k requests 1..k under the limit
ExpectedBatches(k) ==
    [j \in 1..((k + CONCURRENT_REQUEST_LIMIT - 1) \div CONCURRENT_REQUEST_LIMIT)
        |-> [n \in 1..(IF j * CONCURRENT_REQUEST_LIMIT <= k
                       THEN CONCURRENT_REQUEST_LIMIT
                       ELSE k - (j - 1) * CONCURRENT_REQUEST_LIMIT)
              |-> (j - 1) * CONCURRENT_REQUEST_LIMIT + n]]

IsPrefix(a, b) == Len(a) <= Len(b) /\ a = SubSeq(b, 1, Len(a))

\* the queue processor has returned and left nothing behind
Drained ==
    /\ images.imageGenerationQueue = << >>
    /\ ~images.isProcessingQueue
    /\ requests = << >>
    /\ ActiveLoops = {}
    /\ LoadingCards = {}

\* C23: started on a queue of k requests, with no further admissions, the
\* queue processor issues batches of CONCURRENT_REQUEST_LIMIT requests from
\* the front of the queue and a last batch of the remainder, and it ends with
\* the queue empty and isProcessingQueue false, whatever the outcomes of the
\* requests are.
C23_DrainsInBatches ==
    /\ [](IsPrefix(drain.batches, ExpectedBatches(drain.k)))
    /\ <>[](Drained /\ drain.batches = ExpectedBatches(drain.k))

\* five requests went out as two batches of two and one of one, with both
\* failed and published images among them
C23_Witness ==
    /\ Drained
    /\ drain.k = 2 * CONCURRENT_REQUEST_LIMIT + 1
    /\ Len(drain.batches) = 3
    /\ Len(drain.batches[3]) = 1
    /\ \E c \in AllCardIds : images.imageErrors[c]
    /\ \E c \in AllCardIds : images.imageUrls[c] = GeneratedUrl

-----------------------------------------------------------------------------
(* C24 *)

\* the cards that have a request in flight
CardsInFlight == {requests[r].cardId : r \in 1..Len(requests)}

\* C24: the loading flag of a card is set exactly while its request is in
\* flight, and every card that is loading is later not loading and has a
\* URL or an error flag, whatever happens to the other requests.
C24_LoadingEnds ==
    /\ [](LoadingCards = CardsInFlight)
    /\ \A c \in ImageCardIds :
          images.imageLoading[c]
          ~> ( /\ ~images.imageLoading[c]
               /\ \/ images.imageUrls[c] # NoUrl
                  \/ images.imageErrors[c] )

\* a request has published its URL after the other request of its batch had
\* failed
C24_Witness ==
    /\ qLast.op = "saveImage"
    /\ qLast.branch = "saved"
    /\ requests = << >>
    /\ \E c \in ImageCardIds :
          /\ images.imageErrors[c]
          /\ images.imageUrls[c] = NoUrl
          /\ ~images.imageLoading[c]
    /\ ~images.imageErrors[qLast.cardId]

-----------------------------------------------------------------------------
(* Load: initial evidence, booking photos, testimonies *)

\* the raw characters of a cartridge whose role reads victim
RawVictims(c) ==
    {i \in 1..Len(c.characters) : c.characters[i].role \in {"victim", "Victim"}}

\* the id of the first of them
RawVictimId(c) ==
    c.characters[CHOOSE i \in RawVictims(c) :
                    \A j \in RawVictims(c) : i <= j].id

\* the Evidence entry of the victim's death at a location
VictimEntry(c, locationId) ==
    [ id |-> "ev-initial-crime", cardId |-> RawVictimId(c),
      cardType |-> "character", locationId |-> locationId ]

\* the cartridge defines the location
DefinesLocation(c, locationId) ==
    \E i \in 1..Len(c.locations) : c.locations[i] = locationId

\* C28: after Load the Evidence list is exactly one entry for the victim
\* (cardType character, cardId the victim's id, at the crime scene, or at the
\* first location when the cartridge names no crime scene among its
\* locations) whenever the cartridge has a victim, and it is empty when it
\* has none; what the list held before is gone.
C28_InitialEvidence ==
    [][ \A c \in Cartridges :
          (IsLoadStep /\ Load(c))
          => evidence' =
               IF RawVictims(c) # {}
               THEN << VictimEntry(c,
                         IF DefinesLocation(c, c.crimeSceneId)
                         THEN c.crimeSceneId
                         ELSE IF Len(c.locations) > 0 THEN c.locations[1]
                              ELSE NoLocation) >>
               ELSE << >> ]_vars

\* C28 (amended): after Load the Evidence list is exactly one entry for the
\* victim, at the crime scene when crimeSceneId names a location of the
\* cartridge and at the first location otherwise, whenever the cartridge has
\* a victim and at least one location; in every other case it is empty; what
\* the list held before is gone.
C28_InitialEvidenceWhenLocated ==
    [][ \A c \in Cartridges :
          (IsLoadStep /\ Load(c))
          => evidence' =
               IF RawVictims(c) # {} /\ Len(c.locations) > 0
               THEN << VictimEntry(c,
                         IF DefinesLocation(c, c.crimeSceneId)
                         THEN c.crimeSceneId
                         ELSE c.locations[1]) >>
               ELSE << >> ]_vars

\* a Load made after time was spent has left the victim's entry alone in the
\* list, at the crime scene the cartridge names
C28_Witness ==
    /\ last.op = "loadStoryCartridge"
    /\ timeSpent > 0
    /\ Len(locations) = 2
    /\ evidence = << [ id |-> "ev-initial-crime", cardId |-> "c1",
                       cardType |-> "character", locationId |-> "l2" ] >>

-----------------------------------------------------------------------------
(* C29 *)

\* C29: after Load, for every character of the cartridge with role suspect
\* and physicalCharacteristics data, the objects of the store contain the
\* object with id obj_mugshot_<characterId>.
C29_MugshotInStore ==
    [][ \A c \in Cartridges :
          (IsLoadStep /\ Load(c))
          => \A i \in 1..Len(c.characters) :
                ( /\ c.characters[i].role = "suspect"
                  /\ "components" \in DOMAIN c.characters[i]
                  /\ "physicalCharacteristics"
                        \in c.characters[i].components )
                => ("obj_mugshot_" \o c.characters[i].id)
                     \in DOMAIN objects' ]_vars

-----------------------------------------------------------------------------
(* C30 *)

\* the raw characters of a cartridge that have a non-empty statement
WithStatement(c) ==
    {i \in 1..Len(c.characters) :
        /\ "statement" \in DOMAIN c.characters[i]
        /\ c.characters[i].statement # ""}

\* C30: Load stores exactly one Testimony, with id testimony-<characterId>
\* and sourceCharacterId the character's id, for each raw character with a
\* non-empty statement, and the testimonyIds of that character are exactly
\* that id; a character without a statement has no Testimony and empty
\* testimonyIds.
C30_TestimonyPerStatement ==
    [][ \A c \in Cartridges :
          (IsLoadStep /\ Load(c))
          => /\ Len(testimonies') = Cardinality(WithStatement(c))
             /\ \A i \in 1..Len(c.characters) :
                   LET id == c.characters[i].id
                       own == {k \in 1..Len(testimonies') :
                                 testimonies'[k].sourceCharacterId = id}
                   IN  IF i \in WithStatement(c)
                       THEN /\ Cardinality(own) = 1
                            /\ \A k \in own :
                                  testimonies'[k].id = "testimony-" \o id
                            /\ characters'[i].testimonyIds
                                  = << "testimony-" \o id >>
                       ELSE /\ own = {}
                            /\ characters'[i].testimonyIds = << >> ]_vars

\* a cartridge whose first character has an empty statement and whose second
\* has one was loaded
C30_Witness ==
    /\ last.op = "loadStoryCartridge"
    /\ Len(characters) = 2
    /\ characters[1].testimonyIds = << >>
    /\ characters[2].testimonyIds = << "testimony-c2" >>
    /\ Len(testimonies) = 1
    /\ testimonies[1].sourceCharacterId = "c2"

-----------------------------------------------------------------------------
(* Case file: placements over time *)

\* the slots whose placedClueId is the clue
SlotsHolding(cf, clueId) ==
    {slotId \in DOMAIN cf.slots : cf.slots[slotId].placedClueId = clueId}

\* the clues some slot refers to
PlacedClueIds(cf) ==
    {clueId \in DOMAIN cf.clues : SlotsHolding(cf, clueId) # {}}

RECURSIVE SumPoints(_, _)
SumPoints(cf, clueIds) ==
    IF clueIds = {} THEN 0
    ELSE LET clueId == CHOOSE c \in clueIds : TRUE
             clue == cf.clues[clueId]
         IN  clue.points
               + (IF "bonusPoints" \in DOMAIN clue THEN clue.bonusPoints ELSE 0)
               + SumPoints(cf, clueIds \ {clueId})

\* the slots of an anchor
SlotsOfAnchor(anchor) ==
    {anchor.primarySlot.slotId} \cup SupportingSlotIds(anchor)

\* the slots this step changed
ChangedSlots ==
    {slotId \in DOMAIN caseFile.slots :
        slotId \in DOMAIN caseFile'.slots
        /\ caseFile'.slots[slotId] # caseFile.slots[slotId]}

C34_ScoreIsSumOfPlaced ==
    caseFile.score = SumPoints(caseFile, PlacedClueIds(caseFile))

\* C35: a placement never changes the placedClueId of a slot that already
\* holds a clue.
C35_HeldClueStays ==
    [][ IsCfStep("placeClueInSlot")
        => \A slotId \in DOMAIN caseFile.slots :
              SlotFilled(caseFile, slotId)
              => caseFile'.slots[slotId].placedClueId
                   = caseFile.slots[slotId].placedClueId ]_vars

\* C36: a placement changes only slots of the anchor that activeTab names
\* (its primary slot or one of its supporting slots).
C36_OnlyActiveAnchor ==
    [][ IsCfStep("placeClueInSlot")
        => \A slotId \in ChangedSlots :
              /\ \E i \in 1..Len(caseFile.anchors) :
                    caseFile.anchors[i].id = caseFile.activeTab
              /\ slotId \in SlotsOfAnchor(ActiveAnchor) ]_vars

\* C36 (amended): a placement changes at most one slot and only while
\* activeTab names an anchor; a SUPPORTING clue goes only into a supporting
\* slot of that anchor, a PRIMARY clue into any slot whose correctEventKey is
\* its eventKey, whichever anchor the slot belongs to.
C36_PlacementTargets ==
    [][ IsCfStep("placeClueInSlot")
        => /\ Cardinality(ChangedSlots) <= 1
           /\ \A slotId \in ChangedSlots :
                 /\ \E i \in 1..Len(caseFile.anchors) :
                       caseFile.anchors[i].id = caseFile.activeTab
                 /\ caseFile'.slots[slotId].placedClueId
                       = caseFile.selectedClueId
                 /\ \/ /\ SelectedClue.type = "SUPPORTING"
                       /\ slotId \in SupportingSlotIds(ActiveAnchor)
                    \/ /\ SelectedClue.type = "PRIMARY"
                       /\ "correctEventKey" \in DOMAIN caseFile.slots[slotId]
                       /\ caseFile.slots[slotId].correctEventKey
                             = SelectedClue.eventKey ]_vars

\* the last step was a correct placement made on the motive tab, and the
\* only slot that holds a clue is the primary slot of the means anchor
C36_Witness ==
    /\ cfLast.op = "placeClueInSlot"
    /\ cfLast.branch = "correct"
    /\ caseFile.activeTab = "motive"
    /\ caseFile.slots["n0"].placedClueId = "p2"
    /\ \A slotId \in DOMAIN caseFile.slots \ {"n0"} :
          ~SlotFilled(caseFile, slotId)

\* C37: while no slot holds a clue (in the initial state, before the case
\* file is loaded, or when it has no slots) the investigation is not
\* complete.
C37_NotCompleteWhenNothingPlaced ==
    (\A slotId \in DOMAIN caseFile.slots : ~SlotFilled(caseFile, slotId))
    => ~selectIsInvestigationComplete(caseFile)

-----------------------------------------------------------------------------
(* Image state: URLs and error flags *)

\* C38: in every reachable state no card has both a published URL and its
\* error flag set.
C38_NoUrlWithError ==
    \A c \in AllCardIds :
        ~(images.imageUrls[c] # NoUrl /\ images.imageErrors[c])

\* C39: once a card has a URL, no step replaces it by a different URL,
\* however admissions, hydration and the queue processor interleave.
C39_UrlNeverReplaced ==
    [][ \A c \in AllCardIds :
          images.imageUrls[c] # NoUrl
          => images'.imageUrls[c] = images.imageUrls[c] ]_vars

-----------------------------------------------------------------------------
(* The evidence board and the evidence flag *)

\* C31: setEvidencePosition(id, x, y) sets the coordinates of the Evidence
\* entry with that id and leaves every other entry, every object and
\* timeSpent unchanged; for an id without an entry it changes nothing.
C31_PositionSet ==
    [][ IsStep("setEvidencePosition")
        => /\ timeSpent' = timeSpent
           /\ objects' = objects
           /\ Len(evidence') = Len(evidence)
           /\ \A i \in 1..Len(evidence) :
                 IF evidence[i].id = last'.id
                 THEN /\ "x" \in DOMAIN evidence'[i]
                      /\ "y" \in DOMAIN evidence'[i]
                      /\ evidence'[i].x = last'.x
                      /\ evidence'[i].y = last'.y
                 ELSE evidence'[i] = evidence[i] ]_vars

\* a drop on the board changes no Evidence entry, no object and not
\* timeSpent
DropChangesNothing ==
    [][ IsStep("setEvidencePosition")
        => /\ timeSpent' = timeSpent
           /\ objects' = objects
           /\ evidence' = evidence ]_vars

\* C32: in every state after a Load, an object's isEvidence flag is true
\* exactly when the Evidence list has an entry with the object's id as
\* cardId.
C32_FlagMatchesList ==
    last.op # "init"
    => \A id \in DOMAIN objects :
          objects[id].isEvidence <=> OnTimeline(evidence, id)

====
